---- MODULE Spec2Model ----
(***************************************************************************)
(* A model of the rust-proxy binary: the supervisor of src/main.rs, the    *)
(* connection handlers of src/handlers.rs and the certificate resolver of  *)
(* src/config.rs.  Byte strings are sequences of integers 0..255, so the   *)
(* header scan, the UTF-8 check and the decimal Content-Length are         *)
(* computed as the code computes them.                                     *)
(***************************************************************************)
EXTENDS Integers, Sequences, FiniteSets, TLC

(***************************************************************************)
(* Byte constants of handlers.rs                                           *)
(***************************************************************************)
BUFFER_LEN == 8192

CR == 13
LF == 10
COLON == 58

\* 'Host: '
HOST_PREFIX ==
    <<72, 111, 115, 116, 58, 32>>

\* 'GET '
GET_PREFIX ==
    <<71, 69, 84, 32>>

\* '/PTTH '
NEEDLE ==
    <<47, 80, 84, 84, 72, 32>>

\* '/.well-known/acme-challenge/'
CERTBOT_PATH_PREFIX ==
    <<47, 46, 119, 101, 108, 108, 45, 107, 110, 111, 119, 110, 47, 97, 99, 109, 101, 45, 99, 104, 97, 108, 108, 101, 110, 103, 101, 47>>

\* 'HTTP/1.1 200 OK\r\n'
STATUS_LINE ==
    <<72, 84, 84, 80, 47, 49, 46, 49, 32, 50, 48, 48, 32, 79, 75, 13, 10>>

\* 'Server: ' CARGO_PKG_NAME '/' CARGO_PKG_VERSION '\r\n' (69); the name and the
\* version are fixed when the crate is built, here 'rust-proxy/0.1.0'
SERVER_LINE ==
    <<83, 101, 114, 118, 101, 114, 58, 32, 114, 117, 115, 116, 45, 112, 114, 111, 120, 121, 47, 48, 46, 49, 46, 48, 13, 10>>

\* 'Content-Length: '
CONTENT_LENGTH ==
    <<67, 111, 110, 116, 101, 110, 116, 45, 76, 101, 110, 103, 116, 104, 58, 32>>

\* '\r\n'
CRLF ==
    <<13, 10>>

\* 'Content-Type: text/html\r\n'
CONTENT_TYPE ==
    <<67, 111, 110, 116, 101, 110, 116, 45, 84, 121, 112, 101, 58, 32, 116, 101, 120, 116, 47, 104, 116, 109, 108, 13, 10>>

\* 'Connection: Closed\r\n\r\n'
CONNECTION_CLOSED ==
    <<67, 111, 110, 110, 101, 99, 116, 105, 111, 110, 58, 32, 67, 108, 111, 115, 101, 100, 13, 10, 13, 10>>

(***************************************************************************)
(* Shared runtime state (src/config.rs, Config).  The configuration is     *)
(* fixed: two mapped hostnames, "a" and "b", and a certbot backend.        *)
(***************************************************************************)
\* Config.hostnames: "a" -> "backend-a:9000", "b" -> "backend-b:9000"
hostnames ==
    (<<97>> :> "backend-a:9000") @@ (<<98>> :> "backend-b:9000")

\* Config.ports: the ports to listen on (distinct)
ports == << 8080 >>

\* Config.certbot_hostname
certbot_hostname == "certbot-backend:80"

\* Config.certs: the hostnames with a certificate/key pair, by SNI name
certs ==
    ("a" :> [certificate |-> "a.crt", key |-> "a.key"]) @@
    ("b" :> [certificate |-> "b.crt", key |-> "b.key"])

(***************************************************************************)
(* Slices.  A Rust slice buf[from..to] (0-based, to exclusive) is the      *)
(* elements from+1..to of the sequence; it panics when from > to or        *)
(* to > len.                                                               *)
(***************************************************************************)
SliceOk(s, from, to) == from <= to /\ to <= Len(s)

Slice(s, from, to) == SubSeq(s, from + 1, to)

IsPrefix(p, s) == Len(p) <= Len(s) /\ SubSeq(s, 1, Len(p)) = p

(***************************************************************************)
(* handle_http, the header scan (handlers.rs 225-290)                      *)
(***************************************************************************)
\* hostname.iter().enumerate().find_map(..): the index of the first ':' (242),
\* 0 when there is none
FindColon(hostname) ==
    IF \E k \in 1..Len(hostname) : hostname[k] = COLON
    THEN CHOOSE k \in 1..Len(hostname) :
            /\ hostname[k] = COLON
            /\ \A j \in 1..(k - 1) : hostname[j] # COLON
    ELSE 0

\* A truncation at the last ':' of the Host value
StripPort_AtLastColon(hostname) ==
    IF \E k \in 1..Len(hostname) : hostname[k] = COLON
    THEN LET pos == CHOOSE k \in 1..Len(hostname) :
                        /\ hostname[k] = COLON
                        /\ \A j \in (k + 1)..Len(hostname) : hostname[j] # COLON
         IN  SubSeq(hostname, 1, pos - 1)
    ELSE hostname

\* The truncation hostname[..pos] (242-244)
StripPort(hostname) ==
    LET pos == FindColon(hostname)
    IN  IF pos = 0 THEN hostname ELSE SubSeq(hostname, 1, pos - 1)

\* One iteration of the back-to-front search for " HTTP/" (258-269) at the
\* 1-based index k: needle_i counts the needle bytes matched, cut is the
\* length the path is stripped to once the needle is found (-1 before).
StripStep(path, k, st) ==
    IF path[k] = NEEDLE[st.needle_i + 1]
    THEN IF st.needle_i + 1 = Len(NEEDLE)
         THEN [needle_i |-> st.needle_i + 1, cut |-> k - 1]
         ELSE [needle_i |-> st.needle_i + 1, cut |-> -1]
    ELSE [needle_i |-> 0, cut |-> -1]

\* The iterations for the indices hi down to lo, in that order, up to the break
RECURSIVE StripRange(_, _, _, _)
StripRange(path, lo, hi, st) ==
    IF st.cut >= 0 \/ lo > hi THEN st
    ELSE IF lo = hi THEN StripStep(path, lo, st)
    ELSE LET mid == (lo + hi) \div 2
         IN  StripRange(path, lo, mid, StripRange(path, mid + 1, hi, st))

\* A stripping that also takes the byte before " HTTP/x"
StripHttp_CutsOneMore(path) ==
    LET st == StripRange(path, 1, Len(path), [needle_i |-> 0, cut |-> -1])
    IN  IF st.cut >= 1 THEN SubSeq(path, 1, st.cut - 1) ELSE path

\* The path without its trailing " HTTP/x" (254-269)
StripHttp(path) ==
    LET st == StripRange(path, 1, Len(path), [needle_i |-> 0, cut |-> -1])
    IN  IF st.cut >= 0 THEN SubSeq(path, 1, st.cut) ELSE path

\* The test of a "GET " line for the certbot path (251-272)
IsCertbotLine(line) ==
    /\ Slice(line, 0, 4) = GET_PREFIX
    /\ LET path == StripHttp(Slice(line, 4, Len(line)))
       IN  /\ Len(path) >= Len(CERTBOT_PATH_PREFIX)
           /\ Slice(path, 0, Len(CERTBOT_PATH_PREFIX)) = CERTBOT_PATH_PREFIX

ScanResult(kind, host) == [kind |-> kind, host |-> host]

\* A scan without the certbot test of GET lines
LineResult_WithoutCertbot(line, certbot) ==
    IF ~SliceOk(line, 0, 6) THEN ScanResult("panic", <<>>)
    ELSE IF Slice(line, 0, 6) = HOST_PREFIX
         THEN ScanResult("host", StripPort(Slice(line, 6, Len(line))))
    ELSE ScanResult("next", <<>>)

\* What a complete line does to the scan (238-284): "host", "certbot", "panic"
\* (the slice line[..6] of a line shorter than 6 bytes) or "next".
LineResult(line, certbot) ==
    IF ~SliceOk(line, 0, 6) THEN ScanResult("panic", <<>>)
    ELSE IF Slice(line, 0, 6) = HOST_PREFIX
         THEN ScanResult("host", StripPort(Slice(line, 6, Len(line))))
    ELSE IF certbot /\ IsCertbotLine(line) THEN ScanResult("certbot", <<>>)
    ELSE ScanResult("next", <<>>)

\* One iteration of the loop over buf[..buf_len] (229-290) at the 0-based
\* index i: ptr is the start of the current line, carriage_return the flag,
\* result what the loop has left with ("none" while it runs).
ScanStep(buf, i, st, certbot) ==
    LET b == buf[i + 1] IN
    IF ~st.carriage_return /\ b = CR
    THEN [st EXCEPT !.carriage_return = TRUE]
    ELSE IF st.carriage_return /\ b = LF
    THEN IF ~SliceOk(buf, st.ptr, i - 1)
         THEN [st EXCEPT !.result = ScanResult("panic", <<>>)]
         ELSE LET r == LineResult(Slice(buf, st.ptr, i - 1), certbot) IN
              IF r.kind = "next"
              THEN [st EXCEPT !.ptr = i + 1, !.carriage_return = FALSE]
              ELSE [st EXCEPT !.result = r]
    ELSE [st EXCEPT !.carriage_return = FALSE]

\* A scan that goes on after a Host line, so that the last Host line is the
\* one that counts
RECURSIVE ScanRange_LastHostWins(_, _, _, _, _)
ScanRange_LastHostWins(buf, lo, hi, st, certbot) ==
    IF st.result.kind \in {"panic", "certbot"} \/ lo > hi THEN st
    ELSE IF lo = hi
    THEN LET n == ScanStep(buf, lo, [st EXCEPT !.result = ScanResult("none", <<>>)], certbot)
         IN  IF n.result.kind = "none" THEN [n EXCEPT !.result = st.result]
             ELSE IF n.result.kind = "host"
             THEN [n EXCEPT !.ptr = lo + 1, !.carriage_return = FALSE]
             ELSE n
    ELSE LET mid == (lo + hi) \div 2
         IN  ScanRange_LastHostWins(buf, mid + 1, hi,
                                    ScanRange_LastHostWins(buf, lo, mid, st, certbot), certbot)

\* The iterations for the indices lo to hi, in that order, up to the break
RECURSIVE ScanRange(_, _, _, _, _)
ScanRange(buf, lo, hi, st, certbot) ==
    IF st.result.kind # "none" \/ lo > hi THEN st
    ELSE IF lo = hi THEN ScanStep(buf, lo, st, certbot)
    ELSE LET mid == (lo + hi) \div 2
         IN  ScanRange(buf, mid + 1, hi, ScanRange(buf, lo, mid, st, certbot), certbot)

\* The whole loop, from ptr = 0 and carriage_return = false (226-290)
Scan(buf, certbot) ==
    ScanRange(buf, 0, Len(buf) - 1,
              [ptr |-> 0, carriage_return |-> FALSE, result |-> ScanResult("none", <<>>)],
              certbot).result

(***************************************************************************)
(* std::str::from_utf8 (handlers.rs 298): UTF-8 well-formedness            *)
(***************************************************************************)
\* The validator's state: need continuation bytes are still to come, the
\* next of them within lo..hi; bad once the bytes are not UTF-8.
Utf8State(need, lo, hi, bad) == [need |-> need, lo |-> lo, hi |-> hi, bad |-> bad]

Utf8Step(st, b) ==
    IF st.bad THEN st
    ELSE IF st.need > 0
    THEN IF b >= st.lo /\ b <= st.hi
         THEN Utf8State(st.need - 1, 128, 191, FALSE)
         ELSE Utf8State(0, 0, 0, TRUE)
    ELSE IF b < 128 THEN Utf8State(0, 0, 0, FALSE)
    ELSE IF b >= 194 /\ b <= 223 THEN Utf8State(1, 128, 191, FALSE)
    ELSE IF b = 224 THEN Utf8State(2, 160, 191, FALSE)
    ELSE IF (b >= 225 /\ b <= 236) \/ b = 238 \/ b = 239 THEN Utf8State(2, 128, 191, FALSE)
    ELSE IF b = 237 THEN Utf8State(2, 128, 159, FALSE)
    ELSE IF b = 240 THEN Utf8State(3, 144, 191, FALSE)
    ELSE IF b >= 241 /\ b <= 243 THEN Utf8State(3, 128, 191, FALSE)
    ELSE IF b = 244 THEN Utf8State(3, 128, 143, FALSE)
    ELSE Utf8State(0, 0, 0, TRUE)

RECURSIVE Utf8Range(_, _, _, _)
Utf8Range(s, lo, hi, st) ==
    IF st.bad \/ lo > hi THEN st
    ELSE IF lo = hi THEN Utf8Step(st, s[lo])
    ELSE LET mid == (lo + hi) \div 2
         IN  Utf8Range(s, mid + 1, hi, Utf8Range(s, lo, mid, st))

\* A conversion that accepts every byte sequence
from_utf8_unchecked(s) == TRUE

from_utf8_ok(s) ==
    LET st == Utf8Range(s, 1, Len(s), Utf8State(0, 0, 0, FALSE))
    IN  ~st.bad /\ st.need = 0

(***************************************************************************)
(* handle_http, the routing decision (handlers.rs 291-321)                 *)
(***************************************************************************)
Decision(kind, target) == [kind |-> kind, target |-> target]

\* A routing that answers a request without Host line with the not-found response
Route_NotFoundWithoutHost(buf, certbot) ==
    LET r == Scan(buf, certbot) IN
    IF r.kind = "certbot" THEN Decision("certbot", certbot_hostname)
    ELSE IF r.kind = "panic" THEN Decision("panic", "")
    ELSE IF r.kind = "none" THEN Decision("not_found", "")
    ELSE IF ~from_utf8_ok(r.host) THEN Decision("non_utf8", "")
    ELSE IF r.host \notin DOMAIN hostnames THEN Decision("not_found", "")
    ELSE Decision("redirect", hostnames[r.host])

\* The bytes of s with the ASCII capitals made small
ToLower(s) == [i \in DOMAIN s |-> IF s[i] \in 65..90 THEN s[i] + 32 ELSE s[i]]

\* A routing that looks the hostname up without regard to letter case
Route_FoldsCase(buf, certbot) ==
    LET r == Scan(buf, certbot) IN
    IF r.kind = "certbot" THEN Decision("certbot", certbot_hostname)
    ELSE IF r.kind = "panic" THEN Decision("panic", "")
    ELSE IF r.kind = "none" THEN Decision("no_host", "")
    ELSE IF ~from_utf8_ok(r.host) THEN Decision("non_utf8", "")
    ELSE IF ToLower(r.host) \notin DOMAIN hostnames THEN Decision("not_found", "")
    ELSE Decision("redirect", hostnames[ToLower(r.host)])

\* The decision taken on the bytes of the first read:
\*   "certbot"   redirect to the certbot hostname      (281)
\*   "panic"     the task panics in the scan           (238)
\*   "no_host"   abort, no Host line                   (293-296)
\*   "non_utf8"  abort, the hostname is not UTF-8      (300-303)
\*   "not_found" the not-found response                (310-317)
\*   "redirect"  redirect to the mapped target         (321)
Route(buf, certbot) ==
    LET r == Scan(buf, certbot) IN
    IF r.kind = "certbot" THEN Decision("certbot", certbot_hostname)
    ELSE IF r.kind = "panic" THEN Decision("panic", "")
    ELSE IF r.kind = "none" THEN Decision("no_host", "")
    ELSE IF ~from_utf8_ok(r.host) THEN Decision("non_utf8", "")
    ELSE IF r.host \notin DOMAIN hostnames THEN Decision("not_found", "")
    ELSE Decision("redirect", hostnames[r.host])

(***************************************************************************)
(* The environment: what clients send, what the not-found file holds,      *)
(* what name resolution answers, what a backend replies.                   *)
(***************************************************************************)
\* b'Host: a\r\n\r\n'
P_HOST_A ==
    <<72, 111, 115, 116, 58, 32, 97, 13, 10, 13, 10>>

\* b'Host: b:80\r\n\r\n'
P_HOST_B_PORT ==
    <<72, 111, 115, 116, 58, 32, 98, 58, 56, 48, 13, 10, 13, 10>>

\* b'Host: c\r\n\r\n'
P_HOST_C ==
    <<72, 111, 115, 116, 58, 32, 99, 13, 10, 13, 10>>

\* b'Host: \xff\r\n\r\n'
P_HOST_BAD ==
    <<72, 111, 115, 116, 58, 32, 255, 13, 10, 13, 10>>

\* b'Host: a:\xff\r\n\r\n'
P_HOST_A_BADPORT ==
    <<72, 111, 115, 116, 58, 32, 97, 58, 255, 13, 10, 13, 10>>

\* b'GET / HTTP/1.1\r\n'
P_GET_ROOT ==
    <<71, 69, 84, 32, 47, 32, 72, 84, 84, 80, 47, 49, 46, 49, 13, 10>>

\* b'GET /.well-known/acme-challenge/x HTTP/1.1\r\n'
P_GET_ACME ==
    <<71, 69, 84, 32, 47, 46, 119, 101, 108, 108, 45, 107, 110, 111, 119, 110, 47, 97, 99, 109, 101, 45, 99, 104, 97, 108, 108, 101, 110, 103, 101, 47, 120, 32, 72, 84, 84, 80, 47, 49, 46, 49, 13, 10>>

\* b'A: b\r\n'
P_SHORT ==
    <<65, 58, 32, 98, 13, 10>>

\* b'Host: a'
P_HOST_A_OPEN ==
    <<72, 111, 115, 116, 58, 32, 97>>

\* b'\r\n\r\n'
P_END ==
    <<13, 10, 13, 10>>

\* b'xyz'
P_BODY ==
    <<120, 121, 122>>

\* b'404'
PAYLOAD_SHORT ==
    <<52, 48, 52>>

\* b'<h1>404</h1>'
PAYLOAD_LONG ==
    <<60, 104, 49, 62, 52, 48, 52, 60, 47, 104, 49, 62>>

\* b'Date: Sat, 04 May 2024 09:12:33 GMT\r\n'
DATE_SAT ==
    <<68, 97, 116, 101, 58, 32, 83, 97, 116, 44, 32, 48, 52, 32, 77, 97, 121, 32, 50, 48, 50, 52, 32, 48, 57, 58, 49, 50, 58, 51, 51, 32, 71, 77, 84, 13, 10>>

\* b'HTTP/1.1 204 No Content\r\n\r\n'
REPLY ==
    <<72, 84, 84, 80, 47, 49, 46, 49, 32, 50, 48, 52, 32, 78, 111, 32, 67, 111, 110, 116, 101, 110, 116, 13, 10, 13, 10>>

MaxConns == 2
MaxPieces == 2
MaxReplies == 1

Pieces ==
    { P_HOST_A, P_HOST_B_PORT, P_HOST_C, P_HOST_BAD, P_HOST_A_BADPORT, P_GET_ROOT,
      P_GET_ACME, P_SHORT, P_HOST_A_OPEN, P_END, P_BODY }

\* A request is the sequence of segments in which the client's bytes arrive.
Requests(n) == UNION { [1..k -> Pieces] : k \in 0..n }

RECURSIVE Concat(_)
Concat(segs) == IF segs = <<>> THEN <<>> ELSE Head(segs) \o Concat(Tail(segs))

\* The requests of the runs with several connections
CoreRequests == { <<>>, << P_HOST_A >>, << P_HOST_C >> }

\* The hostnames of the generated Host lines: 'a' (mapped), 'c' (not mapped)
\* and a byte that is not UTF-8
Names == { <<97>>, <<99>>, <<255>> }

\* The bytes of the generated port texts: '8', ':' and a byte that is not UTF-8
PortBytes == { 56, 58, 255 }

MaxPort == 2

PortTexts == UNION { [1..n -> PortBytes] : n \in 0..MaxPort }

\* The Host values: a hostname alone, or a hostname, ':' and a port text
HostValues == Names \cup { h \o << COLON >> \o p : h \in Names, p \in PortTexts }

HostLines == { HOST_PREFIX \o v \o CRLF : v \in HostValues }

\* 'X-Pad: y'
PAD == <<88, 45, 80, 97, 100, 58, 32, 121>>

\* The ends of a line before the Host line: CR LF, CR CR LF, CR CR CR LF
LineEnds == { CRLF, << CR >> \o CRLF, << CR, CR >> \o CRLF }

\* A line that is neither Host line nor GET line, then a Host line or a GET
\* line for an ACME path
PaddedBufs ==
    { PAD \o e \o l : e \in LineEnds,
                      l \in { HOST_PREFIX \o <<97>> \o CRLF, HOST_PREFIX \o <<99>> \o CRLF,
                              P_GET_ACME } }

\* ' HTTP/1.1'
HTTP11 == <<32, 72, 84, 84, 80, 47, 49, 46, 49>>

\* ' HTTP/'
HTTP_OPEN == <<32, 72, 84, 84, 80, 47>>

\* What a generated path starts with: the ACME prefix, the ACME prefix less
\* its last byte, '/'
PathHeads ==
    { CERTBOT_PATH_PREFIX, SubSeq(CERTBOT_PATH_PREFIX, 1, Len(CERTBOT_PATH_PREFIX) - 1), <<47>> }

\* What follows: nothing or 'x'
PathMids == { <<>>, <<120>> }

\* What a generated path ends with: nothing, ' HTTP/1.1', ' HTTP/',
\* '  HTTP/1.1', ' HTTP/ HTTP/1.1', 'HTTP/1.1'
PathTails ==
    { <<>>, HTTP11, HTTP_OPEN, <<32>> \o HTTP11, HTTP_OPEN \o HTTP11, Tail(HTTP11) }

GetLines ==
    { GET_PREFIX \o h \o m \o t \o CRLF : h \in PathHeads, m \in PathMids, t \in PathTails }

\* The header names of the lines that differ in letter case: 'Host: ',
\* 'host: ', 'HOST: '
CaseHeaders == { HOST_PREFIX, <<104, 111, 115, 116, 58, 32>>, <<72, 79, 83, 84, 58, 32>> }

\* Their values: 'a', 'A', 'B', 'a ' and 'b:80'
CaseValues == { <<97>>, <<65>>, <<66>>, <<97, 32>>, <<98, 58, 56, 48>> }

CaseLines == { n \o v \o CRLF : n \in CaseHeaders, v \in CaseValues }

\* The requests of the runs about single lines: one segment each
LineRequests == { << b >> : b \in HostLines \cup PaddedBufs \cup GetLines \cup CaseLines }

\* The request of the runs about the supervisor: the client sends nothing
IdleRequests == { <<>> }

Menu(tag) ==
    IF tag = "core" THEN CoreRequests
    ELSE IF tag = "lines" THEN LineRequests
    ELSE IF tag = "idle" THEN IdleRequests
    ELSE Requests(MaxPieces)

Payloads == { PAYLOAD_SHORT, PAYLOAD_LONG }

PayloadsOf(tag) == IF tag \in {"core", "lines", "idle"} THEN { PAYLOAD_SHORT } ELSE Payloads

Dates == { DATE_SAT }

SniNames == { "none", "a", "c" }

\* The candidate lists of to_socket_addrs
DnsResults == { <<>>, <<"v4">>, <<"v6">>, <<"v4", "v6">>, <<"v6", "v4">> }

Min(x, y) == IF x <= y THEN x ELSE y

(***************************************************************************)
(* proxy-lang: SourceRef (proxy-lang/src/source.rs) and the comment        *)
(* scanner (proxy-lang/src/scanner/comments.rs).  A source text is the     *)
(* sequence of its bytes; the texts here are ASCII.                        *)
(***************************************************************************)
\* '// '
TAG_LINE == <<47, 47, 32>>

\* '/* '
TAG_BLOCK == <<47, 42, 32>>

\* '*/'
TAG_BLOCK_END == <<42, 47>>

\* '\n'
TAG_NEWLINE == <<10>>

\* '//'
TAG_SLASHES == <<47, 47>>

\* '// Hello there!'
SRC_LINE == <<47, 47, 32, 72, 101, 108, 108, 111, 32, 116, 104, 101, 114, 101, 33>>

\* '/* Hello there! */'
SRC_BLOCK == <<47, 42, 32, 72, 101, 108, 108, 111, 32, 116, 104, 101, 114, 101, 33, 32, 42, 47>>

\* '// Hello there!\n/* Hello there! */'
SRC_BOTH == <<47, 47, 32, 72, 101, 108, 108, 111, 32, 116, 104, 101, 114, 101, 33, 10, 47, 42, 32, 72, 101, 108, 108, 111, 32, 116, 104, 101, 114, 101, 33, 32, 42, 47>>

\* '// \n/* */'
SRC_BOTH_EMPTY == <<47, 47, 32, 10, 47, 42, 32, 42, 47>>

\* '// a\n/* a */'
SRC_BOTH_SHORT == <<47, 47, 32, 97, 10, 47, 42, 32, 97, 32, 42, 47>>

\* The bytes of the short source texts: '/', '*', ' ', '\n', 'a'
SourceBytes == { 47, 42, 32, 10, 97 }

MaxSource == 4

\* The source texts: every text of up to MaxSource bytes, and the texts of
\* the tests
Sources ==
    UNION { [1..n -> SourceBytes] : n \in 0..MaxSource }
        \cup { SRC_LINE, SRC_BLOCK, SRC_BOTH, SRC_BOTH_EMPTY, SRC_BOTH_SHORT }

\* The tags the scanner matches
Tags == { TAG_LINE, TAG_BLOCK, TAG_BLOCK_END, TAG_NEWLINE, TAG_SLASHES }

\* SourceRef { source, offset, size, name } (source.rs 137-149); the source
\* text is kept beside it
SourceRef(offset, size) == [offset |-> offset, size |-> size]

\* SourceRef::new (161-170)
SourceRef_new(source) == SourceRef(0, Len(source))

\* SourceRef::as_str (232)
as_str(source, r) == Slice(source, r.offset, r.offset + r.size)

\* The result of a nom parser: Ok((remainder, output)) or Err(Error)
ParseOk(rest, out) == [ok |-> TRUE, rest |-> rest, out |-> out]

ParseErr(input) == [ok |-> FALSE, rest |-> input, out |-> input]

\* A split that gives the matched part where the remainder belongs
take_split_Swapped(r, count) ==
    ParseOk(SourceRef(r.offset, count), SourceRef(r.offset + count, r.size - count))

\* InputTake::take_split (369-388): the remainder and the matched part (it
\* panics when count > size, which no caller here lets happen)
take_split(r, count) ==
    ParseOk(SourceRef(r.offset + count, r.size - count), SourceRef(r.offset, count))

\* Compare::compare (430-437)
compare(source, r, t) ==
    IF r.size < Len(t) THEN "Incomplete"
    ELSE IF Slice(source, r.offset, r.offset + Len(t)) = t THEN "Ok"
    ELSE "Error"

\* InputIter::slice_index (419-426) for count >= 1: every turn of the loop
\* makes a new char_indices() iterator and takes its first element, whose
\* index is 0
RECURSIVE slice_index(_, _)
slice_index(r, count) ==
    IF r.size = 0 THEN [ok |-> FALSE, index |-> count]
    ELSE IF count - 1 = 0 THEN [ok |-> TRUE, index |-> 0]
    ELSE slice_index(r, count - 1)

\* nom::bytes::complete::tag over a SourceRef: compare, then take_split
tag(source, t, r) ==
    IF compare(source, r, t) = "Ok" THEN take_split(r, Len(t)) ELSE ParseErr(r)

\* nom::bytes::complete::take over a SourceRef: slice_index, then take_split
take(count, r) ==
    LET i == slice_index(r, count)
    IN  IF i.ok THEN take_split(r, i.index) ELSE ParseErr(r)

\* nom::combinator::eof
eof(r) == IF r.size = 0 THEN ParseOk(r, r) ELSE ParseErr(r)

\* alt((tag("\n"), eof)) (comments.rs 61-64, 67-70)
line_end(source, r) ==
    LET t == tag(source, TAG_NEWLINE, r) IN IF t.ok THEN t ELSE eof(r)

\* many_till(pair(not(end), take(1)), end) (comments.rs 59-71, 90-96): the end
\* is tried first; else one element is parsed, and an element that consumes
\* nothing is an error (nom's guard against an endless loop)
RECURSIVE many_till(_, _, _)
many_till(source, multiline, r) ==
    LET end == IF multiline THEN tag(source, TAG_BLOCK_END, r) ELSE line_end(source, r)
        one == take(1, r)
    IN  IF end.ok THEN end
        ELSE IF ~one.ok THEN ParseErr(r)
        ELSE IF one.rest.size = r.size THEN ParseErr(r)
        ELSE many_till(source, multiline, one.rest)

\* scan_singleline (comments.rs 55-74)
scan_singleline(source, r) ==
    LET t == tag(source, TAG_LINE, r)
    IN  IF ~t.ok THEN ParseErr(r)
        ELSE LET m == many_till(source, FALSE, t.rest)
             IN  IF m.ok THEN ParseOk(m.rest, r) ELSE ParseErr(r)

\* scan_multiline (comments.rs 86-101)
scan_multiline(source, r) ==
    LET t == tag(source, TAG_BLOCK, r)
    IN  IF ~t.ok THEN ParseErr(r)
        ELSE LET m == many_till(source, TRUE, t.rest)
             IN  IF m.ok THEN ParseOk(m.rest, r) ELSE ParseErr(r)

\* comments::scan (comments.rs 118-123): alt((scan_singleline, scan_multiline))
scan(source, r) ==
    LET l == scan_singleline(source, r)
    IN  IF l.ok THEN l ELSE scan_multiline(source, r)

(***************************************************************************)
(* proxy-lang: the scanner (proxy-lang/src/scanner/scanner.rs) and its     *)
(* token parsers                                                           *)
(***************************************************************************)
\* The result of a parser: "ok" with the remainder and the range matched,
\* "err" (nom's Err::Error), "failure" (Err::Failure) or "panic"
Res(kind, rest, out) == [kind |-> kind, rest |-> rest, out |-> out]

Lift(p, r) == IF p.ok THEN Res("ok", p.rest, p.out) ELSE Res("err", r, r)

\* The output of a parser that gives no token (comb::value(None, ..))
NoToken == SourceRef(0, 0)

\* Slice<RangeFrom<usize>>::slice (source.rs 447-459): it panics when the
\* range starts at or after the end
slice(r, start) ==
    IF start >= r.size THEN Res("panic", r, r)
    ELSE Res("ok", SourceRef(r.offset + start, r.size - start), r)

\* Offset::offset (source.rs 460-468)
offset(r, second) ==
    IF r.offset >= second.offset THEN r.offset - second.offset ELSE second.offset - r.offset

\* The first character of a range that is not empty
first(source, r) == source[r.offset + 1]

\* ' ', '\t', '\r', '\n'
SPACES == { 32, 9, 13, 10 }

DIGITS == 48..57

ALPHANUMERIC == DIGITS \cup (65..90) \cup (97..122)

\* The number of characters at the start of the range that are in the class
Span(source, r, class) ==
    LET s == as_str(source, r)
    IN  CHOOSE n \in 0..Len(s) :
            /\ \A i \in 1..n : s[i] \in class
            /\ n = Len(s) \/ s[n + 1] \notin class

\* InputTakeAtPosition::split_at_position1_complete through position and
\* take_split (nom's implementation for UnspecializedInput): the characters
\* of the class at the start, at least one
split_at_position1_complete(source, r, class) ==
    LET n == Span(source, r, class)
    IN  IF n = 0 THEN Res("err", r, r) ELSE Lift(take_split(r, n), r)

\* nom::character::complete::one_of: the first character when it is in the
\* list, the remainder being input.slice(1..)
one_of(source, r, list) ==
    IF r.size > 0 /\ first(source, r) \in list THEN slice(r, 1) ELSE Res("err", r, r)

\* The first result that is not an Err::Error, the last one when all are
\* (branch::alt)
RECURSIVE alt(_)
alt(results) ==
    IF Len(results) = 1 \/ Head(results).kind # "err" THEN Head(results)
    ELSE alt(Tail(results))

\* alt over the tags ts, in their order
alt_tags(source, ts, r) == alt([i \in 1..Len(ts) |-> Lift(tag(source, ts[i], r), r)])

\* whitespace::scan (whitespace.rs 32-40): alt((multispace1, eof))
whitespace_scan(source, r) ==
    alt(<< split_at_position1_complete(source, r, SPACES), Lift(eof(r), r) >>)

\* '->', ':', '[', ']', '{', '}', '/', '.', ','
PUNCTUATION ==
    << <<45, 62>>, <<58>>, <<91>>, <<93>>, <<123>>, <<125>>, <<47>>, <<46>>, <<44>> >>

\* punctuation::scan (punctuation.rs 33-45)
punctuation_scan(source, r) == alt_tags(source, PUNCTUATION, r)

\* '[settings]', '[rules]'
KEYWORDS == << <<91, 115, 101, 116, 116, 105, 110, 103, 115, 93>>, <<91, 114, 117, 108, 101, 115, 93>> >>

\* keywords::scan (keywords.rs 33-48)
keywords_scan(source, r) == alt_tags(source, KEYWORDS, r)

\* scan_action (values.rs 104-112): tuple((tag("!"), cut(alphanumeric1)))
scan_action(source, r) ==
    LET l == Lift(tag(source, << 33 >>, r), r) IN
    IF l.kind # "ok" THEN Res("err", r, r)
    ELSE LET name == split_at_position1_complete(source, l.rest, ALPHANUMERIC)
         IN  IF name.kind = "ok"
             THEN Res("ok", name.rest, SourceRef(r.offset, 1 + name.out.size))
             ELSE Res("failure", r, r)

\* scan_port (values.rs 177-188): terminated(digit1, ws::scan)
scan_port(source, r) ==
    LET digits == split_at_position1_complete(source, r, DIGITS) IN
    IF digits.kind # "ok" THEN Res("err", r, r)
    ELSE LET w == whitespace_scan(source, digits.rest)
         IN  IF w.kind = "ok" THEN Res("ok", w.rest, digits.out) ELSE Res("err", r, r)

\* scan_protocol (values.rs 124-134): tuple((alphanumeric1, tag("://")))
scan_protocol(source, r) ==
    LET prot == split_at_position1_complete(source, r, ALPHANUMERIC) IN
    IF prot.kind # "ok" THEN Res("err", r, r)
    ELSE LET t == Lift(tag(source, << 58, 47, 47 >>, prot.rest), prot.rest)
         IN  IF t.kind = "ok" THEN Res("ok", t.rest, SourceRef(r.offset, prot.out.size + 3))
             ELSE Res("err", r, r)

\* scan_identifier (values.rs 146-165): many1(alt((alphanumeric1,
\* is_a("_%")))), which takes the characters of the two classes at the start
scan_identifier(source, r) ==
    split_at_position1_complete(source, r, ALPHANUMERIC \cup { 95, 37 })

\* scan_aterisk (values.rs 200-223): pair(tag("*"), opt(one_of("0123456789*")))
scan_aterisk(source, r) ==
    LET aterisk == Lift(tag(source, << 42 >>, r), r) IN
    IF aterisk.kind # "ok" THEN Res("err", r, r)
    ELSE LET t == one_of(source, aterisk.rest, DIGITS \cup { 42 })
         IN  IF t.kind = "panic" THEN Res("panic", r, r)
             ELSE IF t.kind = "ok" THEN Res("ok", t.rest, SourceRef(r.offset, 2))
             ELSE Res("ok", aterisk.rest, SourceRef(r.offset, 1))

\* pair(not(one_of("\\\"")), take(1)) (values.rs 243-246)
normal(source, i) ==
    LET o == one_of(source, i, { 92, 34 }) IN
    IF o.kind = "panic" THEN Res("panic", i, i)
    ELSE IF o.kind = "ok" THEN Res("err", i, i)
    ELSE Lift(take(1, i), i)

\* nom::bytes::complete::escaped(normal, '\\', one_of("\\'\"ntr")): the loop
\* over the remainder i of input; input.slice(input.input_len()..) is what it
\* returns on reaching the end
RECURSIVE escaped(_, _, _)
escaped(source, input, i) ==
    IF i.size = 0 THEN slice(input, input.size)
    ELSE LET n == normal(source, i) IN
         IF n.kind = "panic" THEN Res("panic", input, input)
         ELSE IF n.kind = "ok"
         THEN IF n.rest.size = 0 THEN slice(input, input.size)
              ELSE IF n.rest.size = i.size
              THEN Lift(take_split(input, offset(input, n.rest)), input)
              ELSE escaped(source, input, n.rest)
         ELSE IF first(source, i) = 92
         THEN IF 1 >= i.size THEN Res("err", input, input)
              ELSE LET e == one_of(source, slice(i, 1).rest, { 92, 39, 34, 110, 116, 114 })
                   IN  IF e.kind = "ok" THEN escaped(source, input, e.rest)
                       ELSE Res(e.kind, input, input)
         ELSE IF offset(input, i) = 0 THEN Res("err", input, input)
         ELSE Lift(take_split(input, offset(input, i)), input)

\* scan_string (values.rs 237-277): tuple((tag("\""), escaped(..), tag("\"")))
scan_string(source, r) ==
    LET l == Lift(tag(source, << 34 >>, r), r) IN
    IF l.kind # "ok" THEN Res("err", r, r)
    ELSE LET text == escaped(source, l.rest, l.rest) IN
         IF text.kind # "ok" THEN Res(text.kind, r, r)
         ELSE LET q == Lift(tag(source, << 34 >>, text.rest), text.rest)
              IN  IF q.kind = "ok"
                  THEN Res("ok", q.rest, SourceRef(r.offset, q.rest.offset - r.offset))
                  ELSE Res("err", r, r)

\* scan_uint (values.rs 289-296): digit1
scan_uint(source, r) == split_at_position1_complete(source, r, DIGITS)

\* scan_sint (values.rs 308-315): tuple((many1(tag("-")), digit1))
scan_sint(source, r) ==
    LET signs == split_at_position1_complete(source, r, { 45 }) IN
    IF signs.kind # "ok" THEN Res("err", r, r)
    ELSE LET digits == split_at_position1_complete(source, signs.rest, DIGITS)
         IN  IF digits.kind = "ok"
             THEN Res("ok", digits.rest, SourceRef(r.offset, signs.out.size + digits.out.size))
             ELSE Res("err", r, r)

\* scan_bool (values.rs 327-338): alt((tag("true"), tag("false")))
scan_bool(source, r) == alt_tags(source, << <<116, 114, 117, 101>>, <<102, 97, 108, 115, 101>> >>, r)

\* values::scan (values.rs 354-367)
values_scan(source, r) ==
    alt(<< scan_action(source, r), scan_port(source, r), scan_protocol(source, r),
           scan_identifier(source, r), scan_aterisk(source, r), scan_string(source, r),
           scan_uint(source, r), scan_sint(source, r), scan_bool(source, r) >>)

\* scan_token (scanner.rs 77-101): whitespace and comments give no token
scan_token(source, r) ==
    alt(<< [whitespace_scan(source, r) EXCEPT !.out = NoToken],
           [Lift(scan(source, r), r) EXCEPT !.out = NoToken],
           punctuation_scan(source, r),
           keywords_scan(source, r),
           values_scan(source, r) >>)

\* The bytes of the texts given to the scanner: '*', '1', ' ', 'a', '"', '/',
\* '\'
ScanBytes == { 42, 49, 32, 97, 34, 47, 92 }

MaxScanSource == 3

ScanSources == UNION { [1..n -> ScanBytes] : n \in 0..MaxScanSource }

\* What a run of the scanner has done last
NoOp == [op |-> "none", tag |-> <<>>, before |-> SourceRef(0, 0), result |-> ParseErr(SourceRef(0, 0))]

\* No scanner runs
NoLang ==
    [source |-> <<>>, input |-> SourceRef(0, 0), scans |-> 0, tags |-> 0, last |-> NoOp,
     tokens |-> <<>>, status |-> "none"]

(***************************************************************************)
(* State                                                                   *)
(***************************************************************************)
VARIABLES
    build,          \* the cargo features of the build: certbot (https is enabled)
    workload,       \* what the clients of this run do: conns, menu
    main_pc,        \* where main() stands
    exit_code,      \* the process exit code, -1 while it runs
    stop_cause,     \* what ended the process
    tries,          \* the startup steps attempted so far
    cert_files,     \* what load_certstore found in the files of each hostname
    loaded,         \* the leaked shared values that are live
    not_found,      \* the not-found payload
    certstore,      \* CertificateResolver.certstore
    bound,          \* the listeners that are bound
    registered,     \* the signal handlers that are registered
    sig,            \* the signals delivered and not yet received
    delivered,      \* the signals delivered so far
    conn,           \* the connections, in order of arrival
    lang            \* a run of the proxy-lang scanner: source, input, last result

vars ==
    << build, workload, main_pc, exit_code, stop_cause, tries, cert_files, loaded,
       not_found, certstore, bound, registered, sig, delivered, conn, lang >>

main_vars ==
    << main_pc, exit_code, stop_cause, tries, cert_files, loaded, not_found, certstore,
       bound, registered >>

Conns == 1..Len(conn)

NewConn(listener, req, sni) ==
    [ listener   |-> listener,
      pc         |-> "pending",
      stream     |-> Concat(req),   \* everything the client means to send
      req        |-> req,           \* the segments it has not sent yet
      sni        |-> sni,           \* the name in its ClientHello (HTTPS)
      rx         |-> <<>>,          \* received and not yet read by the proxy
      buf        |-> <<>>,          \* buf[..buf_len] of the first read
      decision   |-> "",
      target     |-> "",
      addrs      |-> <<>>,          \* the candidates to_socket_addrs returned
      addr       |-> "",            \* the address connected to
      n_resolve  |-> 0,
      n_connect  |-> 0,
      to_backend |-> <<>>,
      to_client  |-> <<>>,
      replies    |-> 0,
      nf_step    |-> 0,
      up_done    |-> FALSE,
      down_done  |-> FALSE,
      tls_cert   |-> {},            \* the CertifiedKey presented in the handshake
      outcome    |-> "" ]

Finish(r, outcome) == [r EXCEPT !.pc = "done", !.outcome = outcome]

Alive == main_pc \in {"serving", "shutdown"}

(***************************************************************************)
(* main(): startup (main.rs 69-155)                                        *)
(***************************************************************************)
\* An exit that always reports success
Exit_Success(code, cause) ==
    /\ main_pc' = "exited"
    /\ exit_code' = 0
    /\ stop_cause' = cause

Exit(code, cause) ==
    /\ main_pc' = "exited"
    /\ exit_code' = code
    /\ stop_cause' = cause

Init ==
    /\ build \in [certbot : BOOLEAN]
    /\ workload = [conns |-> MaxConns, menu |-> "core"]
    /\ main_pc = "load_config"
    /\ exit_code = -1
    /\ stop_cause = ""
    /\ tries = 0
    /\ cert_files = <<>>
    /\ loaded = {}
    /\ not_found = <<>>
    /\ certstore = <<>>
    /\ bound = {}
    /\ registered = {}
    /\ sig = {}
    /\ delivered = {}
    /\ conn = <<>>
    /\ lang = NoLang

\* Config::from_path (71-80)
LoadConfig ==
    /\ main_pc = "load_config"
    /\ \/ /\ main_pc' = "load_not_found"
          /\ loaded' = loaded \cup {"config"}
          /\ UNCHANGED << exit_code, stop_cause >>
       \/ /\ Exit(1, "config")
          /\ UNCHANGED loaded
    /\ tries' = tries + 1
    /\ UNCHANGED << lang, build, workload, cert_files, not_found, certstore, bound, registered, sig,
                    delivered, conn >>

\* A startup that goes on without the not-found payload
LoadNotFoundFile_Skipped ==
    /\ main_pc = "load_not_found"
    /\ main_pc' = "load_certstore"
    /\ tries' = tries + 1
    /\ UNCHANGED << lang, build, workload, exit_code, stop_cause, cert_files, loaded, not_found,
                    certstore, bound, registered, sig, delivered, conn >>

\* Config::load_not_found_file (83-89, config.rs 149-156)
LoadNotFoundFile ==
    /\ main_pc = "load_not_found"
    /\ \/ \E file \in PayloadsOf(workload.menu) :
             /\ not_found' = file
             /\ loaded' = loaded \cup {"not_found"}
             /\ main_pc' = "load_certstore"
             /\ UNCHANGED << exit_code, stop_cause >>
       \/ /\ Exit(1, "not_found_file")
          /\ UNCHANGED << not_found, loaded >>
    /\ tries' = tries + 1
    /\ UNCHANGED << lang, build, workload, cert_files, certstore, bound, registered, sig, delivered, conn >>

\* The CertifiedKey stored for a hostname (config.rs 220)
CertifiedKey(hostname) ==
    [cert |-> certs[hostname].certificate, key |-> certs[hostname].key, ocsp |-> "None"]

\* What load_certstore finds in the certificate file and in the key file of a
\* hostname (config.rs 179-216)
CertFileStates == { "ok", "unreadable", "unparsable", "empty" }

KeyFileStates == { "ok", "unreadable", "empty", "unparsable", "unsupported" }

CertFiles == [DOMAIN certs -> [certificate : CertFileStates, key : KeyFileStates]]

\* The orders in which self.certs.iter() may visit the hostnames (config.rs 175)
IterOrders ==
    { o \in [1..Cardinality(DOMAIN certs) -> DOMAIN certs] :
         \A i, j \in DOMAIN o : i # j => o[i] # o[j] }

\* The body of the loop for one hostname (config.rs 176-216): the Error it
\* returns, "Ok" when the certificates and the key are loaded.
LoadEntry(file) ==
    IF file.certificate = "unreadable" THEN "CertificateOpen"
    ELSE IF file.certificate = "unparsable" THEN "CertificateParse"
    ELSE IF file.certificate = "empty" THEN "CertificateEmpty"
    ELSE IF file.key = "unreadable" THEN "PrivateKeyOpen"
    ELSE IF file.key = "empty" THEN "PrivateKeyEmpty"
    ELSE IF file.key = "unparsable" THEN "PrivateKeyParse"
    ELSE IF file.key = "unsupported" THEN "PrivateKeyDecode"
    ELSE "Ok"

\* A load that leaves out a hostname whose files cannot be used
RECURSIVE load_certstore_SkipsFailures(_, _, _)
load_certstore_SkipsFailures(files, order, store) ==
    IF order = <<>>
    THEN [ok |-> TRUE, store |-> store, err |-> "Ok"]
    ELSE LET hostname == Head(order)
         IN  IF LoadEntry(files[hostname]) # "Ok"
             THEN load_certstore_SkipsFailures(files, Tail(order), store)
             ELSE load_certstore_SkipsFailures(files, Tail(order),
                                               store @@ (hostname :> CertifiedKey(hostname)))

\* Config::load_certstore (config.rs 166-229): the loop over the hostnames
\* left in order, with the store built so far.
RECURSIVE load_certstore(_, _, _)
load_certstore(files, order, store) ==
    IF order = <<>> THEN [ok |-> TRUE, store |-> store, err |-> "Ok"]
    ELSE LET hostname == Head(order)
             e == LoadEntry(files[hostname])
         IN  IF e # "Ok" THEN [ok |-> FALSE, store |-> <<>>, err |-> e]
             ELSE load_certstore(files, Tail(order),
                                 store @@ (hostname :> CertifiedKey(hostname)))

\* config.load_certstore() in main (93-99)
LoadCertstore ==
    /\ main_pc = "load_certstore"
    /\ \E files \in CertFiles, order \in IterOrders :
          LET r == load_certstore(files, order, <<>>) IN
          /\ cert_files' = files
          /\ IF r.ok
             THEN /\ certstore' = r.store
                  /\ loaded' = loaded \cup {"tls_config"}
                  /\ main_pc' = "build_rt"
                  /\ UNCHANGED << exit_code, stop_cause >>
             ELSE /\ Exit(1, "certstore")
                  /\ UNCHANGED << certstore, loaded >>
    /\ tries' = tries + 1
    /\ UNCHANGED << lang, build, workload, not_found, bound, registered, sig, delivered, conn >>

\* Builder::new_multi_thread().enable_io().build() (103-109)
BuildRuntime ==
    /\ main_pc = "build_rt"
    /\ \/ /\ main_pc' = "bind_http"
          /\ UNCHANGED << exit_code, stop_cause >>
       \/ Exit(1, "runtime")
    /\ tries' = tries + 1
    /\ UNCHANGED << lang, build, workload, cert_files, loaded, not_found, certstore, bound, registered,
                    sig, delivered, conn >>

\* TcpListener::bind(http_addr) (112-120)
BindHttp ==
    /\ main_pc = "bind_http"
    /\ \/ /\ bound' = bound \cup {"http"}
          /\ main_pc' = "bind_https"
          /\ UNCHANGED << exit_code, stop_cause >>
       \/ /\ Exit(1, "bind")
          /\ UNCHANGED bound
    /\ tries' = tries + 1
    /\ UNCHANGED << lang, build, workload, cert_files, loaded, not_found, certstore, registered, sig,
                    delivered, conn >>

\* A bind that is tried again when it fails
BindHttps_Retried ==
    /\ main_pc = "bind_https"
    /\ \/ /\ bound' = bound \cup {"https"}
          /\ main_pc' = "reg_sigint"
       \/ UNCHANGED << bound, main_pc >>
    /\ tries' = tries + 1
    /\ UNCHANGED << lang, build, workload, exit_code, stop_cause, cert_files, loaded, not_found,
                    certstore, registered, sig, delivered, conn >>

\* TcpListener::bind(https_addr) (123-135)
BindHttps ==
    /\ main_pc = "bind_https"
    /\ \/ /\ bound' = bound \cup {"https"}
          /\ main_pc' = "reg_sigint"
          /\ UNCHANGED << exit_code, stop_cause >>
       \/ /\ Exit(1, "bind")
          /\ UNCHANGED bound
    /\ tries' = tries + 1
    /\ UNCHANGED << lang, build, workload, cert_files, loaded, not_found, certstore, registered, sig,
                    delivered, conn >>

\* signal(SignalKind::interrupt()) (138-145)
RegisterSigint ==
    /\ main_pc = "reg_sigint"
    /\ \/ /\ registered' = registered \cup {"SIGINT"}
          /\ main_pc' = "reg_sigterm"
          /\ UNCHANGED << exit_code, stop_cause >>
       \/ /\ Exit(1, "signal_handler")
          /\ UNCHANGED registered
    /\ tries' = tries + 1
    /\ UNCHANGED << lang, build, workload, cert_files, loaded, not_found, certstore, bound, sig, delivered,
                    conn >>

\* signal(SignalKind::terminate()) (148-155)
RegisterSigterm ==
    /\ main_pc = "reg_sigterm"
    /\ \/ /\ registered' = registered \cup {"SIGTERM"}
          /\ main_pc' = "serving"
          /\ UNCHANGED << exit_code, stop_cause >>
       \/ /\ Exit(1, "signal_handler")
          /\ UNCHANGED registered
    /\ tries' = tries + 1
    /\ UNCHANGED << lang, build, workload, cert_files, loaded, not_found, certstore, bound, sig, delivered,
                    conn >>

(***************************************************************************)
(* The environment's steps                                                 *)
(***************************************************************************)
\* A client connects to a bound listener; the connection waits to be accepted.
ClientConnect ==
    /\ main_pc # "exited"
    /\ Len(conn) < workload.conns
    /\ \E listener \in bound, req \in Menu(workload.menu), sni \in SniNames :
          /\ listener = "http" => sni = "none"
          /\ conn' = Append(conn, NewConn(listener, req, sni))
    /\ UNCHANGED << lang, build, workload, main_vars, sig, delivered >>

\* The operating system delivers SIGINT or SIGTERM to a registered handler.
DeliverSignal ==
    /\ main_pc # "exited"
    /\ \E s \in registered \ delivered :
          /\ sig' = sig \cup {s}
          /\ delivered' = delivered \cup {s}
    /\ UNCHANGED << lang, build, workload, main_vars, conn >>

(***************************************************************************)
(* main(): the game loop (main.rs 157-226)                                 *)
(***************************************************************************)
Pending(listener) == { c \in Conns : conn[c].listener = listener /\ conn[c].pc = "pending" }

Oldest(S) == CHOOSE c \in S : \A d \in S : c <= d

\* An accept that waits until the handlers spawned before have finished
AcceptHttp_AfterHandlers ==
    /\ main_pc = "serving"
    /\ Pending("http") # {}
    /\ \A c \in Conns : conn[c].pc \in {"pending", "done"}
    /\ conn' = [conn EXCEPT ![Oldest(Pending("http"))].pc = "read"]
    /\ UNCHANGED << lang, build, workload, main_vars, sig, delivered >>

\* http_listener.accept() => Ok: tokio::spawn(handle_http(..)) (192-196)
AcceptHttp ==
    /\ main_pc = "serving"
    /\ Pending("http") # {}
    /\ conn' = [conn EXCEPT ![Oldest(Pending("http"))].pc = "read"]
    /\ UNCHANGED << lang, build, workload, main_vars, sig, delivered >>

\* https_listener.accept() => Ok: tokio::spawn(handle_https(..)) (201-205)
AcceptHttps ==
    /\ main_pc = "serving"
    /\ Pending("https") # {}
    /\ conn' = [conn EXCEPT ![Oldest(Pending("https"))].pc = "https"]
    /\ UNCHANGED << lang, build, workload, main_vars, sig, delivered >>

\* accept() => Err: logged, the loop goes on (197, 206)
AcceptError ==
    /\ main_pc = "serving"
    /\ UNCHANGED vars

\* A select that polls its branches in the order written (`biased`): the
\* signals are looked at only when no listener has a connection waiting
RecvSignal_Biased ==
    /\ main_pc = "serving"
    /\ Pending("http") = {} /\ Pending("https") = {}
    /\ \E s \in sig :
          /\ sig' = sig \ {s}
          /\ stop_cause' = s
    /\ main_pc' = "shutdown"
    /\ bound' = {}
    /\ conn' = [c \in Conns |->
                  IF conn[c].pc = "pending" THEN Finish(conn[c], "refused") ELSE conn[c]]
    /\ UNCHANGED << lang, build, workload, tries, cert_files, exit_code, loaded, not_found, certstore, registered,
                    delivered >>

\* sigint_handler.recv() / sigterm_handler.recv() => break (210-217).  The
\* listeners, owned by the block, are dropped with it: what still waits in
\* their queues is refused.
RecvSignal ==
    /\ main_pc = "serving"
    /\ \E s \in sig :
          /\ sig' = sig \ {s}
          /\ stop_cause' = s
    /\ main_pc' = "shutdown"
    /\ bound' = {}
    /\ conn' = [c \in Conns |->
                  IF conn[c].pc = "pending" THEN Finish(conn[c], "refused") ELSE conn[c]]
    /\ UNCHANGED << lang, build, workload, tries, cert_files, exit_code, loaded, not_found, certstore, registered,
                    delivered >>

\* A shutdown that waits until every handler has finished
ShutdownRuntime_WaitsForHandlers ==
    /\ main_pc = "shutdown"
    /\ \A c \in Conns : conn[c].pc = "done"
    /\ main_pc' = "cleanup"
    /\ UNCHANGED << lang, build, workload, exit_code, stop_cause, tries, cert_files, loaded,
                    not_found, certstore, bound, registered, sig, delivered, conn >>

\* A shutdown that a second signal turns into a failure
ShutdownRuntime_SecondSignalFails ==
    /\ main_pc = "shutdown"
    /\ IF sig # {}
       THEN /\ \E s \in sig : Exit(1, s) /\ sig' = sig \ {s}
            /\ UNCHANGED conn
       ELSE /\ main_pc' = "cleanup"
            /\ conn' = [c \in Conns |->
                          IF conn[c].pc # "done" THEN Finish(conn[c], "dropped")
                          ELSE conn[c]]
            /\ UNCHANGED << exit_code, stop_cause, sig >>
    /\ UNCHANGED << lang, build, workload, tries, cert_files, loaded, not_found, certstore,
                    bound, registered, delivered >>

\* A task that is suspended at an await, or was never polled, is dropped when
\* the runtime shuts down.  A task inside the blocking to_socket_addrs call
\* (handlers.rs 126) is running on its worker thread: it cannot be dropped
\* there, and shutdown_timeout returns without it when the timeout expires.
Droppable(r) == r.pc \notin {"done", "resolve"}

\* rt.shutdown_timeout(..) (231): the tasks that can be dropped are dropped.
ShutdownRuntime ==
    /\ main_pc = "shutdown"
    /\ main_pc' = "cleanup"
    /\ conn' = [c \in Conns |->
                  IF Droppable(conn[c]) THEN Finish(conn[c], "dropped") ELSE conn[c]]
    /\ UNCHANGED << lang, build, workload, tries, cert_files, exit_code, stop_cause, loaded, not_found, certstore,
                    bound, registered, sig, delivered >>

\* drop(Box::from_raw(..)) of the three leaked values (233-240)
FreeShared ==
    /\ main_pc = "cleanup"
    /\ loaded' = {}
    /\ main_pc' = "return"
    /\ UNCHANGED << lang, build, workload, tries, cert_files, exit_code, stop_cause, not_found, certstore, bound,
                    registered, sig, delivered, conn >>

\* main returns (243-244): exit code 0; the process ends, and with it every
\* thread that still runs a handler
ReturnFromMain ==
    /\ main_pc = "return"
    /\ main_pc' = "exited"
    /\ exit_code' = 0
    /\ conn' = [c \in Conns |->
                  IF conn[c].pc # "done" THEN Finish(conn[c], "dropped") ELSE conn[c]]
    /\ UNCHANGED << lang, build, workload, tries, cert_files, stop_cause, loaded, not_found, certstore, bound,
                    registered, sig, delivered >>

(***************************************************************************)
(* redirect (handlers.rs 123-186)                                          *)
(***************************************************************************)
\* The loop over the resolved addresses (136-148); "" stands for None.
RECURSIVE PickAddr(_, _)
PickAddr(addrs, target_ip) ==
    IF addrs = <<>> THEN target_ip
    ELSE LET addr == Head(addrs) IN
         IF target_ip # ""
         THEN IF target_ip = "v6" /\ addr = "v4"
              THEN PickAddr(Tail(addrs), addr)
              ELSE PickAddr(Tail(addrs), target_ip)
         ELSE PickAddr(Tail(addrs), addr)

\* The worker threads run until the process ends
Running == main_pc \in {"serving", "shutdown", "cleanup", "return"}

\* target.to_socket_addrs() returns, and the choice of the target (126-156);
\* target is a string of the shared configuration, read in the messages
\* logged here.
Resolve(c) ==
    /\ Running
    /\ conn[c].pc = "resolve"
    /\ \/ conn' = [conn EXCEPT ![c] =
                     Finish([@ EXCEPT !.n_resolve = @ + 1], "resolve_failed")]
       \/ \E addrs \in DnsResults :
             LET target_ip == PickAddr(addrs, "") IN
             conn' = [conn EXCEPT ![c] =
                        IF target_ip = ""
                        THEN Finish([@ EXCEPT !.n_resolve = @ + 1, !.addrs = addrs],
                                    "resolve_empty")
                        ELSE [@ EXCEPT !.n_resolve = @ + 1, !.addrs = addrs,
                                       !.addr = target_ip, !.pc = "connect"]]
    /\ UNCHANGED << lang, build, workload, main_vars, sig, delivered >>

\* A connect that is tried again when it fails
Connect_Retried(c) ==
    /\ Alive
    /\ conn[c].pc = "connect"
    /\ \/ conn' = [conn EXCEPT ![c] = [@ EXCEPT !.n_connect = @ + 1, !.pc = "flush"]]
       \/ conn' = [conn EXCEPT ![c] = [@ EXCEPT !.n_connect = @ + 1]]
    /\ UNCHANGED << lang, build, workload, main_vars, sig, delivered >>

\* A connect whose failure is reported to the client
Connect_ReportsFailure(c) ==
    /\ Alive
    /\ conn[c].pc = "connect"
    /\ \/ conn' = [conn EXCEPT ![c] = [@ EXCEPT !.n_connect = @ + 1, !.pc = "flush"]]
       \/ conn' = [conn EXCEPT ![c] =
                     Finish([@ EXCEPT !.n_connect = @ + 1, !.to_client = @ \o STATUS_LINE],
                            "connect_failed")]
    /\ UNCHANGED << lang, build, workload, main_vars, sig, delivered >>

\* TcpStream::connect(target) (160-166)
Connect(c) ==
    /\ Alive
    /\ conn[c].pc = "connect"
    /\ \/ conn' = [conn EXCEPT ![c] = [@ EXCEPT !.n_connect = @ + 1, !.pc = "flush"]]
       \/ conn' = [conn EXCEPT ![c] =
                     Finish([@ EXCEPT !.n_connect = @ + 1], "connect_failed")]
    /\ UNCHANGED << lang, build, workload, main_vars, sig, delivered >>

\* The whole buffer, zeroed past the bytes read
Buffered_WholeBuffer(r) == r.buf \o [i \in 1..(BUFFER_LEN - Len(r.buf)) |-> 0]

\* What redirect is handed as buf: &buf[..buf_len] (281, 321)
Buffered(r) == r.buf

\* target_sock.write_all(buf) (170-173); a failed write may have sent a part.
Flush(c) ==
    /\ Alive
    /\ conn[c].pc = "flush"
    /\ \/ conn' = [conn EXCEPT ![c] =
                     [@ EXCEPT !.to_backend = @ \o Buffered(conn[c]), !.pc = "copy"]]
       \/ \E n \in {0, Len(Buffered(conn[c])) - 1} :
             conn' = [conn EXCEPT ![c] =
                        Finish([@ EXCEPT !.to_backend = SubSeq(Buffered(conn[c]), 1, n)],
                               "flush_failed")]
    /\ UNCHANGED << lang, build, workload, main_vars, sig, delivered >>

\* A copy that routes the client's later bytes again: bytes that route to
\* another target open a new outbound connection
CopyUp_RoutesAgain(c) ==
    /\ Alive
    /\ conn[c].pc = "copy"
    /\ ~conn[c].up_done
    /\ conn' = [conn EXCEPT ![c] =
                  IF conn[c].rx # <<>>
                  THEN [@ EXCEPT !.to_backend = @ \o conn[c].rx, !.rx = <<>>]
                  ELSE IF conn[c].req # <<>>
                  THEN LET d == Route(Head(conn[c].req), build.certbot) IN
                       IF d.kind \in {"redirect", "certbot"} /\ d.target # conn[c].target
                       THEN [@ EXCEPT !.buf = Head(conn[c].req), !.req = Tail(conn[c].req),
                                      !.decision = d.kind, !.target = d.target,
                                      !.to_backend = <<>>, !.pc = "resolve"]
                       ELSE [@ EXCEPT !.to_backend = @ \o Head(conn[c].req),
                                      !.req = Tail(conn[c].req)]
                  ELSE [@ EXCEPT !.up_done = TRUE]]
    /\ UNCHANGED << lang, build, workload, main_vars, sig, delivered >>

\* copy_bidirectional, client to backend (177): the bytes received and not yet
\* read first, then each segment as the client sends it, then its end of stream.
CopyUp(c) ==
    /\ Alive
    /\ conn[c].pc = "copy"
    /\ ~conn[c].up_done
    /\ conn' = [conn EXCEPT ![c] =
                  IF conn[c].rx # <<>>
                  THEN [@ EXCEPT !.to_backend = @ \o conn[c].rx, !.rx = <<>>]
                  ELSE IF conn[c].req # <<>>
                  THEN [@ EXCEPT !.to_backend = @ \o Head(conn[c].req),
                                 !.req = Tail(conn[c].req)]
                  ELSE [@ EXCEPT !.up_done = TRUE]]
    /\ UNCHANGED << lang, build, workload, main_vars, sig, delivered >>

\* copy_bidirectional, backend to client (177): a reply, or its end of stream.
CopyDown(c) ==
    /\ Alive
    /\ conn[c].pc = "copy"
    /\ ~conn[c].down_done
    /\ \/ /\ conn[c].replies < MaxReplies
          /\ conn' = [conn EXCEPT ![c] =
                        [@ EXCEPT !.to_client = @ \o REPLY, !.replies = @ + 1]]
       \/ conn' = [conn EXCEPT ![c] = [@ EXCEPT !.down_done = TRUE]]
    /\ UNCHANGED << lang, build, workload, main_vars, sig, delivered >>

\* A copy whose failure takes the accept loop down
CopyEnd_FailureStopsLoop(c) ==
    /\ Alive
    /\ conn[c].pc = "copy"
    /\ \/ /\ conn[c].up_done /\ conn[c].down_done
          /\ conn' = [conn EXCEPT ![c] = Finish(@, "completed")]
          /\ UNCHANGED << main_pc, bound >>
       \/ /\ conn' = [conn EXCEPT ![c] = Finish(@, "copy_failed")]
          /\ main_pc' = "shutdown"
          /\ bound' = {}
    /\ UNCHANGED << lang, build, workload, exit_code, stop_cause, tries, cert_files, loaded,
                    not_found, certstore, registered, sig, delivered >>

\* copy_bidirectional returns (177-185): Ok when both directions have ended,
\* Err when either side fails.
CopyEnd(c) ==
    /\ Alive
    /\ conn[c].pc = "copy"
    /\ \/ /\ conn[c].up_done /\ conn[c].down_done
          /\ conn' = [conn EXCEPT ![c] = Finish(@, "completed")]
       \/ conn' = [conn EXCEPT ![c] = Finish(@, "copy_failed")]
    /\ UNCHANGED << lang, build, workload, main_vars, sig, delivered >>

(***************************************************************************)
(* write_not_found_file (handlers.rs 53-109)                               *)
(***************************************************************************)
\* usize::to_string (79)
RECURSIVE ToDecimal(_)
ToDecimal(n) ==
    IF n < 10 THEN << 48 + n >> ELSE ToDecimal(n \div 10) \o << 48 + (n % 10) >>

\* A Content-Length that counts a line end after the payload
ContentLengthValue_WithLineEnd(payload) == ToDecimal(Len(payload) + 2)

\* The Content-Length value written for a payload (79)
ContentLengthValue(payload) == ToDecimal(Len(payload))

\* The bytes of the write_all calls, in order (57-101); the Date header is
\* the current time.
NotFoundPart(step, payload, date) ==
    CASE step = 0 -> STATUS_LINE
      [] step = 1 -> date
      [] step = 2 -> SERVER_LINE
      [] step = 3 -> CONTENT_LENGTH
      [] step = 4 -> ContentLengthValue(payload)
      [] step = 5 -> CRLF
      [] step = 6 -> CONTENT_TYPE
      [] step = 7 -> CONNECTION_CLOSED
      [] step = 8 -> payload

NotFoundWrites == 9

\* A responder that goes on with the next write after a failed one
NotFoundStep_ContinuesAfterFailure(c) ==
    /\ Alive
    /\ conn[c].pc = "not_found"
    /\ IF conn[c].nf_step < NotFoundWrites
       THEN \/ \E date \in Dates :
                 conn' = [conn EXCEPT ![c] =
                            [@ EXCEPT !.to_client =
                                         @ \o NotFoundPart(conn[c].nf_step, not_found, date),
                                      !.nf_step = @ + 1]]
            \/ conn' = [conn EXCEPT ![c] = [@ EXCEPT !.nf_step = @ + 1]]
       ELSE \/ conn' = [conn EXCEPT ![c] = Finish(@, "not_found")]
            \/ conn' = [conn EXCEPT ![c] = Finish(@, "not_found_flush_failed")]
    /\ UNCHANGED << lang, build, workload, main_vars, sig, delivered >>

\* A responder after which the handler goes on to redirect the connection,
\* to the certbot hostname as a fallback target
NotFoundStep_ThenRedirects(c) ==
    /\ Alive
    /\ conn[c].pc = "not_found"
    /\ IF conn[c].nf_step < NotFoundWrites
       THEN \/ \E date \in Dates :
                 conn' = [conn EXCEPT ![c] =
                            [@ EXCEPT !.to_client =
                                         @ \o NotFoundPart(conn[c].nf_step, not_found, date),
                                      !.nf_step = @ + 1]]
            \/ \E date \in Dates :
                 LET part == NotFoundPart(conn[c].nf_step, not_found, date)
                 IN  \E n \in {0, Len(part) - 1} :
                        conn' = [conn EXCEPT ![c] =
                                   Finish([@ EXCEPT !.to_client = @ \o SubSeq(part, 1, n)],
                                          "not_found_write_failed")]
       ELSE \/ conn' = [conn EXCEPT ![c] =
                          [@ EXCEPT !.target = certbot_hostname, !.pc = "resolve"]]
            \/ conn' = [conn EXCEPT ![c] = Finish(@, "not_found_flush_failed")]
    /\ UNCHANGED << lang, build, workload, main_vars, sig, delivered >>

\* One write_all of write_not_found_file, or its final flush; a failed write
\* may have sent a part of its bytes.
NotFoundStep(c) ==
    /\ Alive
    /\ conn[c].pc = "not_found"
    /\ IF conn[c].nf_step < NotFoundWrites
       THEN \/ \E date \in Dates :
                 conn' = [conn EXCEPT ![c] =
                            [@ EXCEPT !.to_client =
                                         @ \o NotFoundPart(conn[c].nf_step, not_found, date),
                                      !.nf_step = @ + 1]]
            \/ \E date \in Dates :
                 LET part == NotFoundPart(conn[c].nf_step, not_found, date)
                 IN  \E n \in {0, Len(part) - 1} :
                        conn' = [conn EXCEPT ![c] =
                                   Finish([@ EXCEPT !.to_client = @ \o SubSeq(part, 1, n)],
                                          "not_found_write_failed")]
       ELSE \/ conn' = [conn EXCEPT ![c] = Finish(@, "not_found")]
            \/ conn' = [conn EXCEPT ![c] = Finish(@, "not_found_flush_failed")]
    /\ UNCHANGED << lang, build, workload, main_vars, sig, delivered >>

(***************************************************************************)
(* handle_http (handlers.rs 205-322) and handle_https (338-345)            *)
(***************************************************************************)
\* A handler that also examines the bytes the client has yet to send
AfterRead_ExaminesLaterBytes(r, data, certbot) ==
    LET all == data \o Concat(r.req)
        n   == Min(Len(all), BUFFER_LEN)
        buf == SubSeq(all, 1, n)
        d   == Route(buf, certbot)
        r1  == [r EXCEPT !.buf = buf, !.rx = SubSeq(data, Min(Len(data), BUFFER_LEN) + 1, Len(data)),
                         !.decision = d.kind, !.target = d.target]
    IN  CASE d.kind \in {"redirect", "certbot"} -> [r1 EXCEPT !.pc = "resolve"]
          [] d.kind = "not_found" -> [r1 EXCEPT !.pc = "not_found"]
          [] OTHER -> Finish(r1, d.kind)

\* What the handler does with the bytes of its first read: the scan and the
\* routing decision run without a suspension point up to the first await of
\* redirect or of write_not_found_file.
AfterRead(r, data, certbot) ==
    LET n   == Min(Len(data), BUFFER_LEN)
        buf == SubSeq(data, 1, n)
        d   == Route(buf, certbot)
        r1  == [r EXCEPT !.buf = buf, !.rx = SubSeq(data, n + 1, Len(data)),
                         !.decision = d.kind, !.target = d.target]
    IN  CASE d.kind \in {"redirect", "certbot"} -> [r1 EXCEPT !.pc = "resolve"]
          [] d.kind = "not_found" -> [r1 EXCEPT !.pc = "not_found"]
          [] OTHER -> Finish(r1, d.kind)

\* A read with a deadline: the handler gives up on a client whose bytes have
\* not come
HttpRead_TimesOut(c) ==
    /\ Alive
    /\ conn[c].pc = "read"
    /\ \/ /\ conn[c].req = <<>>
          /\ conn' = [conn EXCEPT ![c] = Finish(@, "closed_early")]
       \/ \E k \in 1..Len(conn[c].req) :
             conn' = [conn EXCEPT ![c] =
                        AfterRead([@ EXCEPT !.req = SubSeq(@, k + 1, Len(@))],
                                  Concat(SubSeq(conn[c].req, 1, k)), build.certbot)]
       \/ conn' = [conn EXCEPT ![c] = Finish(@, "read_failed")]
       \/ conn' = [conn EXCEPT ![c] = Finish(@, "read_timed_out")]
    /\ UNCHANGED << lang, build, workload, main_vars, sig, delivered >>

\* A read into a buffer that the handlers share: the bytes scanned are the
\* ones of whichever connection wrote the buffer last
HttpRead_SharedBuffer(c) ==
    /\ Alive
    /\ conn[c].pc = "read"
    /\ \/ /\ conn[c].req = <<>>
          /\ conn' = [conn EXCEPT ![c] = Finish(@, "closed_early")]
       \/ /\ conn[c].req # <<>>
          /\ \E d \in { e \in Conns : conn[e].listener = "http" /\ conn[e].stream # <<>> } :
                conn' = [conn EXCEPT ![c] =
                           AfterRead([@ EXCEPT !.req = <<>>], conn[d].stream, build.certbot)]
       \/ conn' = [conn EXCEPT ![c] = Finish(@, "read_failed")]
    /\ UNCHANGED << lang, build, workload, main_vars, sig, delivered >>

\* socket.read(&mut buf) (213-223) and what follows it.  The read returns what
\* has arrived: the first k segments of the client, nothing when the client
\* closed without sending, or an error.
HttpRead(c) ==
    /\ Alive
    /\ conn[c].pc = "read"
    /\ \/ /\ conn[c].req = <<>>
          /\ conn' = [conn EXCEPT ![c] = Finish(@, "closed_early")]
       \/ \E k \in 1..Len(conn[c].req) :
             conn' = [conn EXCEPT ![c] =
                        AfterRead([@ EXCEPT !.req = SubSeq(@, k + 1, Len(@))],
                                  Concat(SubSeq(conn[c].req, 1, k)), build.certbot)]
       \/ conn' = [conn EXCEPT ![c] = Finish(@, "read_failed")]
    /\ UNCHANGED << lang, build, workload, main_vars, sig, delivered >>

\* handle_https: the body is empty, the socket is dropped.
HandleHttps(c) ==
    /\ Alive
    /\ conn[c].pc = "https"
    /\ conn' = [conn EXCEPT ![c] = Finish(@, "https_dropped")]
    /\ UNCHANGED << lang, build, workload, main_vars, sig, delivered >>

\* CertificateResolver::resolve (config.rs 107-111).  The server name "none"
\* stands for a ClientHello without SNI; the Option returned is the empty set
\* (None) or the set of the one CertifiedKey (Some).
resolve(server_name) ==
    IF server_name = "none" THEN {}
    ELSE IF server_name \notin DOMAIN certstore THEN {}
    ELSE { certstore[server_name] }

(***************************************************************************)
(* Specifications                                                          *)
(***************************************************************************)
Handler(c) ==
    \/ HttpRead(c)
    \/ HandleHttps(c)
    \/ NotFoundStep(c)
    \/ Resolve(c)
    \/ Connect(c)
    \/ Flush(c)
    \/ CopyUp(c)
    \/ CopyDown(c)
    \/ CopyEnd(c)

Next ==
    \/ LoadConfig
    \/ LoadNotFoundFile
    \/ LoadCertstore
    \/ BuildRuntime
    \/ BindHttp
    \/ BindHttps
    \/ RegisterSigint
    \/ RegisterSigterm
    \/ ClientConnect
    \/ DeliverSignal
    \/ AcceptHttp
    \/ AcceptHttps
    \/ AcceptError
    \/ RecvSignal
    \/ ShutdownRuntime
    \/ FreeShared
    \/ ReturnFromMain
    \/ \E c \in Conns : Handler(c)

Spec == Init /\ [][Next]_vars

\* One connection, with requests of up to MaxPieces segments
InitConn ==
    /\ build \in [certbot : BOOLEAN]
    /\ workload = [conns |-> 1, menu |-> "all"]
    /\ main_pc = "load_config"
    /\ exit_code = -1
    /\ stop_cause = ""
    /\ tries = 0
    /\ cert_files = <<>>
    /\ loaded = {}
    /\ not_found = <<>>
    /\ certstore = <<>>
    /\ bound = {}
    /\ registered = {}
    /\ sig = {}
    /\ delivered = {}
    /\ conn = <<>>
    /\ lang = NoLang

SpecConn == InitConn /\ [][Next]_vars

\* One connection, with a request of one generated line
InitLines ==
    /\ build \in [certbot : BOOLEAN]
    /\ workload = [conns |-> 1, menu |-> "lines"]
    /\ main_pc = "load_config"
    /\ exit_code = -1
    /\ stop_cause = ""
    /\ tries = 0
    /\ cert_files = <<>>
    /\ loaded = {}
    /\ not_found = <<>>
    /\ certstore = <<>>
    /\ bound = {}
    /\ registered = {}
    /\ sig = {}
    /\ delivered = {}
    /\ conn = <<>>
    /\ lang = NoLang

SpecLines == InitLines /\ [][Next]_vars

\* One connection with the requests of the runs with several connections
InitLive ==
    /\ build \in [certbot : BOOLEAN]
    /\ workload = [conns |-> 1, menu |-> "core"]
    /\ main_pc = "load_config"
    /\ exit_code = -1
    /\ stop_cause = ""
    /\ tries = 0
    /\ cert_files = <<>>
    /\ loaded = {}
    /\ not_found = <<>>
    /\ certstore = <<>>
    /\ bound = {}
    /\ registered = {}
    /\ sig = {}
    /\ delivered = {}
    /\ conn = <<>>
    /\ lang = NoLang

\* main() is sequential code: once the loop is left, shutdown_timeout returns
\* within RUNTIME_EXIT_TIMEOUT_S seconds (231), the values are freed (233-240)
\* and main returns (243-244).  Nothing is assumed of handlers or clients.
SpecLive ==
    /\ InitLive
    /\ [][Next]_vars
    /\ WF_vars(ShutdownRuntime)
    /\ WF_vars(FreeShared)
    /\ WF_vars(ReturnFromMain)

(***************************************************************************)
(* Continuous traffic under a fair select                                  *)
(***************************************************************************)
\* A client connects after a connection has finished; the record of the
\* finished connection is reused for the new one.  The new connection finds
\* the queue of its listener empty, so that the order of a queue is the
\* order of the records.
ClientReconnect ==
    /\ main_pc = "serving"
    /\ \E c \in Conns, listener \in bound, req \in Menu(workload.menu), sni \in SniNames :
          /\ conn[c].pc = "done"
          /\ Pending(listener) = {}
          /\ listener = "http" => sni = "none"
          /\ conn' = [conn EXCEPT ![c] = NewConn(listener, req, sni)]
    /\ UNCHANGED << lang, build, workload, main_vars, sig, delivered >>

NextFair ==
    \/ Next
    \/ ClientReconnect

\* Two connections at a time, each followed by a new one when it has finished
InitFair ==
    /\ build \in [certbot : BOOLEAN]
    /\ workload = [conns |-> MaxConns, menu |-> "idle"]
    /\ main_pc = "load_config"
    /\ exit_code = -1
    /\ stop_cause = ""
    /\ tries = 0
    /\ cert_files = <<>>
    /\ loaded = {}
    /\ not_found = <<>>
    /\ certstore = <<>>
    /\ bound = {}
    /\ registered = {}
    /\ sig = {}
    /\ delivered = {}
    /\ conn = <<>>
    /\ lang = NoLang

\* tokio::select! without `biased` polls its branches from a random start
\* (main.rs 168, 188): a branch that is ready again and again is taken.
\* Nothing is assumed of clients, handlers or signals.
SpecFair ==
    /\ InitFair
    /\ [][NextFair]_vars
    /\ SF_vars(AcceptHttp)
    /\ SF_vars(AcceptHttps)
    /\ SF_vars(RecvSignal)

(***************************************************************************)
(* A run of the scanner over one source text                               *)
(***************************************************************************)
proxy_vars ==
    << build, workload, main_vars, sig, delivered, conn >>

\* The proxy does not run; a source text is given to SourceRef::new
InitLang ==
    /\ build = [certbot |-> FALSE]
    /\ workload = [conns |-> 0, menu |-> "core"]
    /\ main_pc = "load_config"
    /\ exit_code = -1
    /\ stop_cause = ""
    /\ tries = 0
    /\ cert_files = <<>>
    /\ loaded = {}
    /\ not_found = <<>>
    /\ certstore = <<>>
    /\ bound = {}
    /\ registered = {}
    /\ sig = {}
    /\ delivered = {}
    /\ conn = <<>>
    /\ \E source \in Sources :
          lang = [NoLang EXCEPT !.source = source, !.input = SourceRef_new(source)]

\* tag(t)(input): on success the scan goes on with the remainder
ApplyTag ==
    /\ \E t \in Tags :
          LET r == tag(lang.source, t, lang.input)
          IN  lang' = [lang EXCEPT
                         !.input = IF r.ok THEN r.rest ELSE @,
                         !.tags = IF r.ok THEN @ + 1 ELSE @,
                         !.last = [op |-> "tag", tag |-> t, before |-> lang.input,
                                   result |-> r]]
    /\ UNCHANGED proxy_vars

\* comments::scan(input): on success the scan goes on with the remainder
ApplyScan ==
    /\ LET r == scan(lang.source, lang.input)
       IN  lang' = [lang EXCEPT
                      !.input = IF r.ok THEN r.rest ELSE @,
                      !.scans = IF r.ok THEN @ + 1 ELSE @,
                      !.last = [op |-> "scan", tag |-> <<>>, before |-> lang.input,
                                result |-> r]]
    /\ UNCHANGED proxy_vars

NextLang ==
    \/ ApplyTag
    \/ ApplyScan

SpecLang == InitLang /\ [][NextLang]_vars

(***************************************************************************)
(* A run of scanner::scan over one source text                             *)
(***************************************************************************)
\* scan has read the source text and made the SourceRef of all of it
\* (scanner.rs 123-131)
InitScan ==
    /\ build = [certbot |-> FALSE]
    /\ workload = [conns |-> 0, menu |-> "core"]
    /\ main_pc = "load_config"
    /\ exit_code = -1
    /\ stop_cause = ""
    /\ tries = 0
    /\ cert_files = <<>>
    /\ loaded = {}
    /\ not_found = <<>>
    /\ certstore = <<>>
    /\ bound = {}
    /\ registered = {}
    /\ sig = {}
    /\ delivered = {}
    /\ conn = <<>>
    /\ \E source \in ScanSources :
          lang = [NoLang EXCEPT !.source = source, !.input = SourceRef_new(source),
                                !.status = "running"]

\* One turn of the loop `while !input.is_empty()` (scanner.rs 132-145)
ScanTurn ==
    /\ lang.status = "running"
    /\ lang.input.size # 0
    /\ LET t == scan_token(lang.source, lang.input)
       IN  lang' = IF t.kind = "ok"
                   THEN [lang EXCEPT !.input = t.rest,
                                     !.tokens = IF t.out = NoToken THEN @ ELSE Append(@, t.out)]
                   ELSE IF t.kind = "panic" THEN [lang EXCEPT !.status = "panic"]
                   ELSE [lang EXCEPT !.status = "error"]
    /\ UNCHANGED proxy_vars

\* The loop is left and the tokens are returned (scanner.rs 148)
ScanReturn ==
    /\ lang.status = "running"
    /\ lang.input.size = 0
    /\ lang' = [lang EXCEPT !.status = "ok"]
    /\ UNCHANGED proxy_vars

NextScan ==
    \/ ScanTurn
    \/ ScanReturn

SpecScan == InitScan /\ [][NextScan]_vars

(***************************************************************************)
(* Notions the properties are stated with                                  *)
(***************************************************************************)
\* sub occurs in s at index i
OccursAt(s, sub, i) ==
    /\ i >= 1
    /\ i + Len(sub) - 1 <= Len(s)
    /\ SubSeq(s, i, i + Len(sub) - 1) = sub

Contains(s, sub) == \E i \in 1..Len(s) : OccursAt(s, sub, i)

\* i is the start of s or follows a CR LF pair
LineStart(s, i) == i = 1 \/ OccursAt(s, CRLF, i - 2)

\* s holds a line that starts with "Host: " and is ended by CR LF
HasHostLine(s) ==
    \E i \in 1..Len(s) :
        /\ LineStart(s, i)
        /\ OccursAt(s, HOST_PREFIX, i)
        /\ \E j \in (i + Len(HOST_PREFIX))..Len(s) : OccursAt(s, CRLF, j)

\* The index of the first occurrence of sub in s from index k on, 0 if none
Find(s, sub, k) ==
    IF \E i \in k..Len(s) : OccursAt(s, sub, i)
    THEN CHOOSE i \in k..Len(s) :
            OccursAt(s, sub, i) /\ \A j \in k..(i - 1) : ~OccursAt(s, sub, j)
    ELSE 0

\* The index of the first CR of s, 0 when it has none
FirstCR(s) ==
    IF \E i \in 1..Len(s) : s[i] = CR
    THEN CHOOSE i \in 1..Len(s) : s[i] = CR /\ \A j \in 1..(i - 1) : s[j] # CR
    ELSE 0

\* The first line of s, when the first CR of s is directly followed by LF
HasFirstLine(s) ==
    LET cr == FirstCR(s) IN cr > 0 /\ cr < Len(s) /\ s[cr + 1] = LF

FirstLine(s) == SubSeq(s, 1, FirstCR(s) - 1)

\* The handler of connection c has taken its routing decision
Decided(c) == conn[c].decision # ""

\* The buffered bytes of connection c have been written to its backend
Flushed(c) == conn[c].pc = "copy" \/ conn[c].outcome \in {"completed", "copy_failed"}

Http == { c \in Conns : conn[c].listener = "http" }

Https == { c \in Conns : conn[c].listener = "https" }

(***************************************************************************)
(* C1                                                                      *)
(***************************************************************************)
\* The line "Host: " h CR LF, followed by the empty line, starts at index i of
\* s, and the lines before it are neither Host lines nor GET lines.
HostLineAfterOtherLines(s, h, i) ==
    /\ LineStart(s, i)
    /\ OccursAt(s, HOST_PREFIX \o h \o CRLF \o CRLF, i)
    /\ \A k \in 1..(i - 1) :
          LineStart(s, k) => ~OccursAt(s, HOST_PREFIX, k) /\ ~OccursAt(s, GET_PREFIX, k)

\* C1: for every key h of the hostname map, a plaintext connection whose
\* client sends "Host: " h CR LF CR LF within the first 8192 bytes of its
\* stream is redirected to hostnames[h].  The claim covers every
\* segmentation; it is stated here for the requests that the first read
\* returns whole and whose Host line follows header lines only.
C1_ForwardedToMappedBackend ==
    \A c \in Http : \A h \in DOMAIN hostnames :
        ( /\ Decided(c)
          /\ conn[c].buf = conn[c].stream
          /\ Len(conn[c].stream) <= BUFFER_LEN
          /\ \E i \in 1..Len(conn[c].stream) :
                HostLineAfterOtherLines(conn[c].stream, h, i) )
        => /\ conn[c].decision = "redirect"
           /\ conn[c].target = hostnames[h]

(***************************************************************************)
(* C2                                                                      *)
(***************************************************************************)
\* C2: on a redirected connection the backend receives the client's bytes in
\* order and unaltered: what it has received is at every moment a prefix of
\* the client's stream, the bytes of the sniffing read (exactly those) come
\* first and are there before any byte of the copy, and when the copy
\* completes the backend has received the whole stream.
C2_BackendReceivesClientBytes ==
    \A c \in Http :
        /\ IsPrefix(conn[c].to_backend, conn[c].stream)
        /\ conn[c].pc \in {"resolve", "connect", "flush"} => conn[c].to_backend = <<>>
        /\ Flushed(c) => IsPrefix(conn[c].buf, conn[c].to_backend)
        /\ conn[c].outcome = "completed" => conn[c].to_backend = conn[c].stream

\* A redirect that completed, with bytes sent after the sniffing read
C2_Witness ==
    \E c \in Http :
        /\ conn[c].outcome = "completed"
        /\ Len(conn[c].buf) < Len(conn[c].stream)
        /\ conn[c].to_backend = conn[c].stream

(***************************************************************************)
(* C3                                                                      *)
(***************************************************************************)
\* The number a sequence of decimal digits denotes, -1 when it is not one
RECURSIVE ParseDecimal(_, _)
ParseDecimal(digits, acc) ==
    IF digits = <<>> THEN acc
    ELSE IF Head(digits) < 48 \/ Head(digits) > 57 THEN -1
    ELSE ParseDecimal(Tail(digits), 10 * acc + (Head(digits) - 48))

\* The head of a response (through the empty line) and its body
HeadEnd(resp) == Find(resp, CRLF \o CRLF, 1)

Body(resp) == SubSeq(resp, HeadEnd(resp) + 4, Len(resp))

\* The value of the Content-Length header of a response, -1 when it has none
ContentLengthOf(resp) ==
    LET at == Find(resp, CRLF \o CONTENT_LENGTH, 1)
        from == at + 2 + Len(CONTENT_LENGTH)
        to == Find(resp, CRLF, from)
    IN  IF at = 0 \/ to = 0 \/ to = from \/ at > HeadEnd(resp) THEN -1
        ELSE ParseDecimal(SubSeq(resp, from, to - 1), 0)

\* The first line of the bytes read is "Host: " name, with name no key of the map
UnmappedHostFirst(buf) ==
    /\ IsPrefix(HOST_PREFIX, buf)
    /\ HasFirstLine(buf)
    /\ LET name == SubSeq(FirstLine(buf), 7, Len(FirstLine(buf)))
       IN  /\ name \notin DOMAIN hostnames
           /\ FindColon(name) = 0
           /\ \A k \in 1..Len(name) : name[k] < 128

\* C3: a connection whose routed hostname is no key of the map gets the
\* not-found response, and when every write of it succeeds the client has
\* received a response that begins with "HTTP/1.1 200 OK\r\n", whose
\* Content-Length value is the byte length of the loaded payload and whose
\* body is the payload.
C3_NotFoundResponse ==
    \A c \in Http :
        /\ UnmappedHostFirst(conn[c].buf) => conn[c].decision = "not_found"
        /\ conn[c].decision = "not_found" /\ conn[c].outcome = "not_found"
              => /\ IsPrefix(STATUS_LINE, conn[c].to_client)
                 /\ HeadEnd(conn[c].to_client) > 0
                 /\ ContentLengthOf(conn[c].to_client) = Len(not_found)
                 /\ Body(conn[c].to_client) = not_found

\* A complete not-found response for a payload of more than nine bytes
C3_Witness ==
    \E c \in Http :
        /\ UnmappedHostFirst(conn[c].buf)
        /\ conn[c].outcome = "not_found"
        /\ Len(not_found) > 9
        /\ Body(conn[c].to_client) = not_found

(***************************************************************************)
(* C4                                                                      *)
(***************************************************************************)
\* The line that starts at index i of s is a GET line for an ACME path
AcmeLineAt(s, i) ==
    /\ LineStart(s, i)
    /\ OccursAt(s, GET_PREFIX \o CERTBOT_PATH_PREFIX, i)
    /\ \E j \in i..Len(s) : OccursAt(s, CRLF, j)

\* The first line of the bytes read is a GET line for an ACME path
AcmeLineFirst(buf) ==
    IsPrefix(GET_PREFIX \o CERTBOT_PATH_PREFIX, buf) /\ HasFirstLine(buf)

\* C4 as stated, for the requests whose first line is a Host line: with the
\* certbot feature, a request read with a GET line for an ACME path is
\* redirected to the certbot hostname, wherever its Host lines stand.
C4_AcmeRedirectedWhereverHost ==
    \A c \in Http :
        ( /\ build.certbot
          /\ Decided(c)
          /\ IsPrefix(HOST_PREFIX, conn[c].buf)
          /\ HasFirstLine(conn[c].buf)
          /\ \E i \in 1..Len(conn[c].buf) : AcmeLineAt(conn[c].buf, i) )
        => conn[c].decision = "certbot"

\* C4: with the certbot feature, a request whose first line is a GET line for
\* a path that starts with /.well-known/acme-challenge/ is redirected to the
\* certbot hostname, whatever Host lines follow it, and the whole of the
\* bytes read is forwarded first.
C4_AcmeFirstLineRedirected ==
    \A c \in Http :
        ( build.certbot /\ AcmeLineFirst(conn[c].buf) )
        => /\ conn[c].decision = "certbot"
           /\ conn[c].target = certbot_hostname
           /\ Flushed(c) => IsPrefix(conn[c].buf, conn[c].to_backend)

\* An ACME request that names a mapped host, forwarded to certbot
C4_Witness ==
    \E c \in Http :
        /\ build.certbot
        /\ AcmeLineFirst(conn[c].buf)
        /\ Contains(conn[c].buf, P_HOST_A)
        /\ conn[c].decision = "certbot"
        /\ Flushed(c)
        /\ conn[c].to_backend # <<>>

(***************************************************************************)
(* C5                                                                      *)
(***************************************************************************)
\* The first BUFFER_LEN bytes of a stream
Window(stream) == SubSeq(stream, 1, Min(Len(stream), BUFFER_LEN))

\* C5 as stated: a connection whose first 8192 bytes hold no Host line has
\* zero bytes written to its client.
C5_NoHostLineNoBytes ==
    \A c \in Http :
        ~HasHostLine(Window(conn[c].stream)) => conn[c].to_client = <<>>

\* C5: a connection whose first read holds no complete Host line is closed
\* with zero bytes written to the client, unless the certbot feature is
\* enabled and the bytes read hold a GET line for an ACME path.
C5_NoHostLineClosedSilently ==
    \A c \in Http :
        ( /\ Decided(c)
          /\ ~HasHostLine(conn[c].buf)
          /\ ~(build.certbot /\ \E i \in 1..Len(conn[c].buf) : AcmeLineAt(conn[c].buf, i)) )
        => /\ conn[c].pc = "done"
           /\ conn[c].decision \in {"no_host", "panic"}
           /\ conn[c].to_client = <<>>
           /\ conn[c].to_backend = <<>>

\* A request line without Host line, read and dropped
C5_Witness ==
    \E c \in Http :
        /\ conn[c].buf = P_GET_ROOT
        /\ conn[c].decision = "no_host"
        /\ conn[c].pc = "done"
        /\ conn[c].to_client = <<>>

(***************************************************************************)
(* C6                                                                      *)
(***************************************************************************)
\* Bytes n of s from index p on are a well-formed UTF-8 byte sequence (the
\* Unicode Standard, table 3-7)
Between(b, lo, hi) == lo <= b /\ b <= hi

WellFormedSeq(s, p, n) ==
    /\ p >= 1
    /\ p + n - 1 <= Len(s)
    /\ CASE n = 1 -> s[p] <= 127
         [] n = 2 -> Between(s[p], 194, 223) /\ Between(s[p + 1], 128, 191)
         [] n = 3 -> /\ \/ s[p] = 224 /\ Between(s[p + 1], 160, 191)
                        \/ Between(s[p], 225, 236) /\ Between(s[p + 1], 128, 191)
                        \/ s[p] = 237 /\ Between(s[p + 1], 128, 159)
                        \/ Between(s[p], 238, 239) /\ Between(s[p + 1], 128, 191)
                     /\ Between(s[p + 2], 128, 191)
         [] n = 4 -> /\ \/ s[p] = 240 /\ Between(s[p + 1], 144, 191)
                        \/ Between(s[p], 241, 243) /\ Between(s[p + 1], 128, 191)
                        \/ s[p] = 244 /\ Between(s[p + 1], 128, 143)
                     /\ Between(s[p + 2], 128, 191)
                     /\ Between(s[p + 3], 128, 191)

\* s is valid UTF-8: each of its bytes lies in a well-formed byte sequence
ValidUtf8(s) ==
    \A i \in 1..Len(s) :
        \E k \in 0..3 : \E n \in (k + 1)..4 : WellFormedSeq(s, i - k, n)

\* The value of the Host line that starts at index i of s
HostValueAt(s, i) ==
    SubSeq(s, i + Len(HOST_PREFIX), Find(s, CRLF, i + Len(HOST_PREFIX)) - 1)

\* s holds a Host line whose value is not valid UTF-8
HasNonUtf8HostLine(s) ==
    \E i \in 1..Len(s) :
        /\ LineStart(s, i)
        /\ OccursAt(s, HOST_PREFIX, i)
        /\ Find(s, CRLF, i + Len(HOST_PREFIX)) > 0
        /\ ~ValidUtf8(HostValueAt(s, i))

\* The first line of the bytes read is a Host line whose value, up to its
\* first ':', is not valid UTF-8
NonUtf8HostnameFirst(buf) ==
    /\ IsPrefix(HOST_PREFIX, buf)
    /\ HasFirstLine(buf)
    /\ LET value == SubSeq(FirstLine(buf), Len(HOST_PREFIX) + 1, Len(FirstLine(buf)))
           colon == Find(value, << COLON >>, 1)
           name  == IF colon = 0 THEN value ELSE SubSeq(value, 1, colon - 1)
       IN  ~ValidUtf8(name)

SilentFailures ==
    { "closed_early", "read_failed", "no_host", "non_utf8", "resolve_failed",
      "resolve_empty", "connect_failed", "flush_failed" }

\* n replies of the backend
RECURSIVE Replies(_)
Replies(n) == IF n = 0 THEN <<>> ELSE Replies(n - 1) \o REPLY

\* C7: a connection that fails at its first read, for want of a Host line, on
\* a hostname that is not UTF-8, at resolution, at connect or at the write of
\* the buffered bytes has had zero bytes written to its client; the bytes a
\* client receives are the not-found response of an unmapped hostname or
\* what its backend sent.
C7_FailuresAreSilent ==
    \A c \in Conns :
        /\ conn[c].outcome \in SilentFailures => conn[c].to_client = <<>>
        /\ conn[c].to_client # <<>> =>
              \/ conn[c].decision = "not_found"
              \/ /\ conn[c].decision \in {"redirect", "certbot"}
                 /\ conn[c].to_client = Replies(conn[c].replies)

\* A connect failure after a successful resolution, nothing written
C7_Witness ==
    \E c \in Conns :
        /\ conn[c].outcome = "connect_failed"
        /\ conn[c].n_resolve = 1
        /\ conn[c].to_client = <<>>

(***************************************************************************)
(* C8                                                                      *)
(***************************************************************************)
\* The handler of connection c has run to its end
Handled(c) == conn[c].pc = "done" /\ conn[c].outcome \notin {"refused", "dropped"}

\* C8: a TLS connection whose ClientHello names a hostname with a configured
\* certificate completes the handshake with the CertifiedKey of that
\* hostname, the one CertificateResolver::resolve returns for it.
C8_HandshakeWithCertOfSni ==
    \A c \in Https :
        ( Handled(c) /\ main_pc = "serving" /\ conn[c].sni \in DOMAIN certs )
        => /\ conn[c].tls_cert # {}
           /\ conn[c].tls_cert = resolve(conn[c].sni)

(***************************************************************************)
(* C9                                                                      *)
(***************************************************************************)
\* C9: a connection accepted on the HTTPS listener is routed on its first
\* decrypted bytes as handle_http routes a plaintext connection on the same
\* bytes.
C9_HttpsRoutedAsHttp ==
    \A c \in Https :
        ( Handled(c) /\ conn[c].stream # <<>> )
        => \E k \in 1..Len(conn[c].req) :
              conn[c].decision = Route(Concat(SubSeq(conn[c].req, 1, k)), build.certbot).kind

(***************************************************************************)
(* C10                                                                     *)
(***************************************************************************)
Signals == { "SIGINT", "SIGTERM" }

\* C10: the process exits with code 0 when it stops because SIGINT or
\* SIGTERM was received and with code 1 when a listener failed to bind; it
\* does not exit 0 for any other cause than a signal.
C10_ExitCode ==
    /\ main_pc = "exited" =>
          /\ stop_cause \in Signals => exit_code = 0
          /\ stop_cause = "bind" => exit_code = 1
          /\ exit_code = 0 => stop_cause \in Signals
          /\ exit_code \in {0, 1}
    /\ main_pc # "exited" => exit_code = -1

\* The process has exited with code 0 after SIGTERM
C10_Witness ==
    /\ main_pc = "exited"
    /\ stop_cause = "SIGTERM"
    /\ exit_code = 0

(***************************************************************************)
(* C11                                                                     *)
(***************************************************************************)
\* The events that stop the process under the termination policy
StopEvents == Signals \cup { "bind" }

\* C11: the first of a listener bind failure, SIGINT and SIGTERM that the
\* supervisor meets fixes the exit code (1 for the bind failure, 0 for a
\* signal): no later step, a second signal during the shutdown included,
\* changes the cause recorded or the exit code.
C11_FirstEventFixesExitCode ==
    [][ /\ stop_cause \in StopEvents => stop_cause' = stop_cause
        /\ exit_code # -1 => exit_code' = exit_code
        /\ (stop_cause \in Signals /\ exit_code' # -1) => exit_code' = 0
        /\ stop_cause' = "bind" => exit_code' = 1 ]_vars

\* The process has exited 0 on SIGINT with SIGTERM delivered and never received
C11_Witness ==
    /\ main_pc = "exited"
    /\ stop_cause = "SIGINT"
    /\ "SIGTERM" \in sig
    /\ exit_code = 0

(***************************************************************************)
(* C12                                                                     *)
(***************************************************************************)
\* The state of a connection whose handler has just been spawned
Spawned(r) == [r EXCEPT !.pc = IF r.listener = "http" THEN "read" ELSE "https"]

\* C12: a connection leaves the accept queue by being handed to one newly
\* spawned handler (a step of the loop that touches no other connection and
\* leaves the loop serving) or by being refused at shutdown; and whenever the
\* loop serves and a connection waits on a listener the accept of that
\* listener can be taken, whatever the handlers spawned earlier are doing.
C12_AcceptSpawnsAndGoesOn ==
    /\ [][ \A c \in Conns :
              (conn[c].pc = "pending" /\ conn'[c].pc # "pending")
              => \/ /\ main_pc = "serving"
                    /\ main_pc' = "serving"
                    /\ conn' = [conn EXCEPT ![c] = Spawned(conn[c])]
                 \/ /\ main_pc' = "shutdown"
                    /\ conn'[c] = Finish(conn[c], "refused") ]_vars
    /\ []( main_pc = "serving" =>
              /\ Pending("http") # {} => ENABLED AcceptHttp
              /\ Pending("https") # {} => ENABLED AcceptHttps )

\* A second connection has been accepted while the handler of the first is
\* still copying
C12_Witness ==
    /\ Len(conn) = 2
    /\ conn[1].pc = "copy"
    /\ conn[2].listener = "http"
    /\ conn[2].pc = "read"

(***************************************************************************)
(* C13                                                                     *)
(***************************************************************************)
\* The connections that have been handed to a handler
Accepted(cs) == { c \in DOMAIN cs : cs[c].pc # "pending" /\ cs[c].outcome # "refused" }

\* C13: from the step that receives SIGINT or SIGTERM on, no connection is
\* accepted and no handler is spawned; the process then eventually exits,
\* whether or not the handlers in flight ever finish, and at the exit every
\* handler has finished or has been dropped.
C13_ShutdownStopsAcceptingAndExits ==
    /\ [][ stop_cause' \in Signals => Accepted(conn') = Accepted(conn) ]_vars
    /\ (stop_cause \in Signals) ~> (main_pc = "exited")
    /\ []( (main_pc = "exited" /\ stop_cause \in Signals)
              => \A c \in Conns : conn[c].pc = "done" )

\* The process has exited after a signal with a handler dropped in flight
C13_Witness ==
    /\ main_pc = "exited"
    /\ stop_cause \in Signals
    /\ \E c \in Conns : conn[c].outcome = "dropped" /\ conn[c].decision = "redirect"

(***************************************************************************)
(* C14                                                                     *)
(***************************************************************************)
\* The configuration, the not-found payload and the certificate store are loaded
SharedLoaded ==
    /\ loaded = { "config", "not_found", "tls_config" }
    /\ not_found \in Payloads
    /\ DOMAIN certstore = DOMAIN certs

\* C14: while the loop serves, and so at every accept, the configuration, the
\* not-found payload and the certificate store are loaded; and from there
\* until the runtime has been shut down no step of main or of a handler
\* changes any of the three.
C14_SharedLoadedAndFrozen ==
    /\ []( (main_pc = "serving" \/ (Accepted(conn) # {} /\ main_pc = "shutdown"))
              => SharedLoaded )
    /\ [][ (main_pc = "serving" \/ main_pc = "shutdown")
              => UNCHANGED << loaded, not_found, certstore >> ]_vars

\* A handler has sent the not-found payload while a second connection waits
C14_Witness ==
    /\ main_pc = "serving"
    /\ SharedLoaded
    /\ \E c, d \in Conns :
          /\ conn[c].outcome = "not_found"
          /\ conn[d].pc = "pending"

(***************************************************************************)
(* C15                                                                     *)
(***************************************************************************)
\* The steps of the startup, in the order of main()
StartupSteps ==
    << "load_config", "load_not_found", "load_certstore", "build_rt", "bind_http",
       "bind_https", "reg_sigint", "reg_sigterm" >>

\* The number of startup steps attempted when the process stops for a cause
AttemptsAt(cause) ==
    CASE cause = "config" -> {1}
      [] cause = "not_found_file" -> {2}
      [] cause = "certstore" -> {3}
      [] cause = "bind" -> {5, 6}

\* C15: each startup step is attempted once, after the steps before it have
\* been attempted once; and when the configuration, the not-found file or the
\* certificate store fails to load, or a listener fails to bind, the process
\* has exited with code 1 at that attempt without having accepted a connection.
C15_StartupFailureExitsOnce ==
    /\ \A k \in DOMAIN StartupSteps : main_pc = StartupSteps[k] => tries = k - 1
    /\ tries <= Len(StartupSteps)
    /\ stop_cause \in { "config", "not_found_file", "certstore", "bind" }
          => /\ main_pc = "exited"
             /\ exit_code = 1
             /\ tries \in AttemptsAt(stop_cause)
             /\ Accepted(conn) = {}

\* The HTTPS listener failed to bind with a client waiting on the HTTP listener
C15_Witness ==
    /\ main_pc = "exited"
    /\ stop_cause = "bind"
    /\ tries = 6
    /\ exit_code = 1
    /\ Len(conn) > 0

(***************************************************************************)
(* C16                                                                     *)
(***************************************************************************)
\* The outcomes of a handler that failed, the unmapped hostname included
HandlerFailures ==
    SilentFailures \cup
    { "panic", "copy_failed", "not_found", "not_found_write_failed",
      "not_found_flush_failed" }

\* Connection c ends in this step with a failure of its handler
FailsNow(c) ==
    /\ conn[c].pc \notin {"pending", "done"}
    /\ conn'[c].pc = "done"
    /\ conn'[c].outcome \in HandlerFailures

\* C16: the step in which a handler fails ends that connection only: it
\* leaves the supervisor, the listeners and every other connection as they
\* were; and with a failed connection behind it the loop still accepts what
\* waits on its listeners.
C16_FailureEndsOneConnection ==
    /\ [][ \A c \in Conns :
              FailsNow(c)
              => /\ UNCHANGED << main_vars, sig >>
                 /\ \A d \in Conns \ {c} : conn'[d] = conn[d] ]_vars
    /\ []( ( /\ main_pc = "serving"
             /\ \E c \in Conns : conn[c].outcome \in HandlerFailures )
           => /\ Pending("http") # {} => ENABLED AcceptHttp
              /\ Pending("https") # {} => ENABLED AcceptHttps )

\* The first connection failed at connect, the second was then served to its end
C16_Witness ==
    /\ main_pc = "serving"
    /\ Len(conn) = 2
    /\ conn[1].outcome = "connect_failed"
    /\ conn[2].outcome = "completed"

(***************************************************************************)
(* C17                                                                     *)
(***************************************************************************)
\* The address families among the candidates
Families(addrs) == { addrs[i] : i \in DOMAIN addrs }

\* C17: when the candidates of the resolution include an IPv6 and an IPv4
\* address the redirect connects to an IPv6 address, and when they are all of
\* one family it connects to the first candidate.
C17_PrefersIPv6 ==
    \A c \in Conns :
        conn[c].addr # ""
        => /\ Families(conn[c].addrs) = { "v4", "v6" } => conn[c].addr = "v6"
           /\ Cardinality(Families(conn[c].addrs)) = 1 => conn[c].addr = conn[c].addrs[1]

(***************************************************************************)
(* C18                                                                     *)
(***************************************************************************)
\* How far a connection has come
Stage(pc) ==
    CASE pc = "pending" -> 0
      [] pc \in {"read", "https"} -> 1
      [] pc \in {"resolve", "not_found"} -> 2
      [] pc = "connect" -> 3
      [] pc = "flush" -> 4
      [] pc = "copy" -> 5
      [] pc = "done" -> 6

\* What has been done for connection c when it stands at, or failed in, a step
RedirectInOrder(c) ==
    LET r == conn[c] IN
    /\ r.n_resolve <= 1
    /\ r.n_connect <= 1
    /\ r.pc \in {"connect", "flush", "copy"} => r.n_resolve = 1
    /\ r.n_connect = 1 => r.n_resolve = 1 /\ r.addr # ""
    /\ r.pc \in {"flush", "copy"} => r.n_connect = 1
    /\ r.to_backend # <<>> => r.n_connect = 1
    /\ r.pc = "copy" => IsPrefix(r.buf, r.to_backend)
    /\ r.outcome \in {"resolve_failed", "resolve_empty"}
          => r.n_resolve = 1 /\ r.n_connect = 0 /\ r.to_backend = <<>> /\ r.to_client = <<>>
    /\ r.outcome = "connect_failed"
          => r.n_connect = 1 /\ r.to_backend = <<>> /\ r.to_client = <<>>
    /\ r.outcome = "flush_failed"
          => Len(r.to_backend) < Len(r.buf) /\ r.to_client = <<>> /\ ~r.up_done
    /\ r.outcome \in {"resolve_failed", "resolve_empty", "connect_failed", "flush_failed",
                      "copy_failed"}
          => r.pc = "done"

\* C18: the redirect resolves, connects, writes the buffered bytes and copies
\* in that order, each at most once: a connection only moves forward through
\* these steps, and one that failed in a step has had no later step performed
\* and is closed.
C18_RedirectStepsInOrderOnce ==
    /\ [] (\A c \in Conns : RedirectInOrder(c))
    /\ [][ \A c \in Conns :
              \/ conn'[c].pc = conn[c].pc
              \/ Stage(conn'[c].pc) > Stage(conn[c].pc) ]_vars

\* The write of the buffered bytes failed after one resolution and one connect
C18_Witness ==
    \E c \in Conns :
        /\ conn[c].outcome = "flush_failed"
        /\ conn[c].n_resolve = 1
        /\ conn[c].n_connect = 1
        /\ conn[c].to_client = <<>>

(***************************************************************************)
(* C19                                                                     *)
(***************************************************************************)
\* C19: once the proxy serves, there is one bound listener for each port of
\* Config.ports and no other listener.
C19_ListenerPerConfiguredPort ==
    main_pc = "serving" => Cardinality(bound) = Len(ports)

(***************************************************************************)
(* C20                                                                     *)
(***************************************************************************)
\* Every certificate file and key file of the configuration can be used
AllFilesOk(files) ==
    \A h \in DOMAIN certs : files[h].certificate = "ok" /\ files[h].key = "ok"

\* load_certstore has run and returned a store / an error
StoreReturned == cert_files # <<>> /\ stop_cause # "certstore"

StoreFailed == cert_files # <<>> /\ stop_cause = "certstore"

\* C20: building the certificate store fails exactly when a certificate or
\* key file of some configured hostname is unreadable, empty, unparsable or of
\* an unsupported type, and then no store is returned; otherwise the store
\* holds exactly the hostnames of Config.certs, each with its own chain and
\* key and no OCSP data.
C20_CertstoreWholeOrError ==
    /\ StoreReturned
          => /\ AllFilesOk(cert_files)
             /\ DOMAIN certstore = DOMAIN certs
             /\ \A h \in DOMAIN certs :
                   certstore[h] = [cert |-> certs[h].certificate, key |-> certs[h].key,
                                   ocsp |-> "None"]
    /\ StoreFailed
          => /\ ~AllFilesOk(cert_files)
             /\ certstore = <<>>
             /\ "tls_config" \notin loaded
             /\ exit_code = 1
    /\ stop_cause = "certstore" => cert_files # <<>>
    /\ "tls_config" \in loaded => StoreReturned

\* The files of one hostname are good, the key of the other is of an
\* unsupported type: the build failed and returned no store
C20_Witness ==
    /\ stop_cause = "certstore"
    /\ cert_files # <<>>
    /\ cert_files["a"] = [certificate |-> "ok", key |-> "ok"]
    /\ cert_files["b"] = [certificate |-> "ok", key |-> "unsupported"]
    /\ certstore = <<>>

(***************************************************************************)
(* C21                                                                     *)
(***************************************************************************)
\* The complete not-found response for a payload and a date
CompleteResponse(payload, date) ==
    STATUS_LINE \o date \o SERVER_LINE \o CONTENT_LENGTH \o ToDecimal(Len(payload)) \o CRLF
        \o CONTENT_TYPE \o CONNECTION_CLOSED \o payload

\* The bytes of the first k writes
RECURSIVE WrittenAfter(_, _, _)
WrittenAfter(k, payload, date) ==
    IF k = 0 THEN <<>>
    ELSE WrittenAfter(k - 1, payload, date) \o NotFoundPart(k - 1, payload, date)

\* What the client of a not-found connection has received, by where the
\* responder stands
NotFoundInOrder(c, date) ==
    LET r    == conn[c]
        done == WrittenAfter(r.nf_step, not_found, date)
    IN  /\ IsPrefix(r.to_client, CompleteResponse(not_found, date))
        /\ r.nf_step <= NotFoundWrites
        /\ r.pc = "not_found" => r.to_client = done
        /\ r.outcome \in {"not_found", "not_found_flush_failed"}
              => r.nf_step = NotFoundWrites /\ r.to_client = CompleteResponse(not_found, date)
        /\ r.outcome = "not_found_write_failed"
              => /\ r.nf_step < NotFoundWrites
                 /\ IsPrefix(done, r.to_client)
                 /\ Len(r.to_client) < Len(WrittenAfter(r.nf_step + 1, not_found, date))

\* C21: the not-found responder writes the status line, the Date, Server,
\* Content-Length and Content-Type headers, "Connection: Closed" with the
\* blank line and the payload in that order, each once, and then flushes;
\* after a failed write nothing more is written, so what the client has
\* received is always a prefix of the complete response.
C21_NotFoundWritesInOrder ==
    /\ [] (\A c \in Conns : conn[c].decision = "not_found"
                               => \E date \in Dates : NotFoundInOrder(c, date))
    /\ [][ \A c \in Conns :
              /\ conn[c].pc = "done" => conn'[c].to_client = conn[c].to_client
              /\ conn[c].decision = "not_found"
                    => /\ conn'[c].nf_step \in {conn[c].nf_step, conn[c].nf_step + 1}
                       /\ IsPrefix(conn[c].to_client, conn'[c].to_client) ]_vars

\* The write of the payload failed after all but its last byte: the client
\* has the complete head and a part of the payload
C21_Witness ==
    \E c \in Conns :
        /\ conn[c].outcome = "not_found_write_failed"
        /\ conn[c].nf_step = 8
        /\ Len(conn[c].to_client) = Len(WrittenAfter(9, not_found, DATE_SAT)) - 1

(***************************************************************************)
(* C22                                                                     *)
(***************************************************************************)
\* C22: a tag of n bytes that matches at the start of a SourceRef of offset o
\* and size s leaves a remainder of offset o + n and size s - n and a matched
\* part of offset o and size n; the matched part is the tag and the two parts
\* together are the text of the original range.  The tag matches exactly when
\* n <= s and the first n bytes of the range are the tag.
C22_TagSplitsRange ==
    lang.last.op = "tag" =>
        LET b == lang.last.before
            t == lang.last.tag
            n == Len(t)
            r == lang.last.result
        IN  /\ r.ok <=> (n <= b.size /\ SubSeq(as_str(lang.source, b), 1, n) = t)
            /\ r.ok => /\ r.rest = [offset |-> b.offset + n, size |-> b.size - n]
                       /\ r.out = [offset |-> b.offset, size |-> n]
                       /\ as_str(lang.source, r.out) = t
                       /\ as_str(lang.source, r.out) \o as_str(lang.source, r.rest)
                             = as_str(lang.source, b)
                       /\ lang.input = r.rest

\* A tag matched in the middle of a source text, with text left after it
C22_Witness ==
    /\ lang.last.op = "tag"
    /\ lang.last.result.ok
    /\ lang.last.before.offset > 0
    /\ lang.last.result.rest.size > 0
    /\ lang.last.result.rest.offset = lang.last.before.offset + Len(lang.last.tag)

(***************************************************************************)
(* C23                                                                     *)
(***************************************************************************)
\* The first place at or after from where t occurs in text, 0 when there is none
FirstAt(text, t, from) ==
    LET at == { k \in from..(Len(text) - Len(t) + 1) : SubSeq(text, k, k + Len(t) - 1) = t }
    IN  IF at = {} THEN 0 ELSE CHOOSE k \in at : \A j \in at : k <= j

\* The length of the comment a text starts with, 0 when it starts with no
\* complete comment
CommentLen(text) ==
    IF IsPrefix(TAG_LINE, text)
    THEN LET k == FirstAt(text, TAG_NEWLINE, 4) IN IF k = 0 THEN Len(text) ELSE k
    ELSE IF IsPrefix(TAG_BLOCK, text)
    THEN LET k == FirstAt(text, TAG_BLOCK_END, 4) IN IF k = 0 THEN 0 ELSE k + 1
    ELSE 0

\* C23: comments::scan applied to an input that starts with a complete
\* comment succeeds and leaves the input just after that comment (after the
\* newline of a single-line comment, or empty at the end of input; after the
\* closing "*/" of a multi-line comment); applied twice to a single-line
\* comment followed by a multi-line comment it leaves an empty remainder at
\* the end of the source.
C23_ScanConsumesOneComment ==
    /\ lang.last.op = "scan" =>
          LET b == lang.last.before
              n == CommentLen(as_str(lang.source, b))
          IN  n > 0 => /\ lang.last.result.ok
                       /\ lang.last.result.rest = [offset |-> b.offset + n, size |-> b.size - n]
    /\ (lang.source \in {SRC_BOTH, SRC_BOTH_SHORT, SRC_BOTH_EMPTY} /\ lang.tags = 0
           /\ lang.scans = 2)
          => lang.input = [offset |-> Len(lang.source), size |-> 0]

(***************************************************************************)
(* C24                                                                     *)
(***************************************************************************)
\* The outcomes the header scan is defined to end in
DefinedOutcomes == { "certbot", "no_host", "non_utf8", "not_found", "redirect" }

\* C24: whatever non-empty bytes the first read returns, the header scan ends
\* in an ACME redirect, an abort for want of a Host line, an abort for a
\* hostname that is not UTF-8, the not-found response or a redirect; it never
\* faults on a slice out of range.
C24_ScanNeverFaults ==
    \A c \in Http : conn[c].buf # <<>> => conn[c].decision \in DefinedOutcomes

(***************************************************************************)
(* C25                                                                     *)
(***************************************************************************)
\* The step is one of the handler of connection c
HandlerStep(c) == conn[c].pc \notin {"pending", "done"} /\ conn'[c] # conn[c]
                     /\ conn'[c].outcome # "dropped"

\* C25: once the shared configuration, the not-found payload and the TLS
\* acceptor are freed, no handler is left that can read them, and no handler
\* takes a step after the free.
C25_NoHandlerAfterFree ==
    /\ [] (main_pc = "return" => \A c \in Conns : conn[c].pc = "done")
    /\ [][ \A c \in Conns : HandlerStep(c) => "config" \in loaded ]_vars

(***************************************************************************)
(* C26                                                                     *)
(***************************************************************************)
\* The bytes read hold a GET line for an ACME path
HasAcmeLine(buf) == \E i \in 1..Len(buf) : AcmeLineAt(buf, i)

\* C26 as stated: a connection whose one read returned no complete Host line
\* is aborted.
C26_NoHostLineAborted ==
    \A c \in Http :
        (Decided(c) /\ ~HasHostLine(conn[c].buf))
        => conn[c].pc = "done" /\ conn[c].decision \in {"no_host", "panic"}

\* C26: the handler reads the client stream once before it decides: the bytes
\* it decides on, the bytes received and not read and the bytes still to come
\* are together the client's stream, and neither the bytes read nor the
\* decision change afterwards.  When the bytes of that read hold no complete
\* Host line (and, with the certbot feature, no GET line for an ACME path) the
\* connection is closed, and the bytes that arrive later are never read.
C26_OneReadDecides ==
    /\ [] (\A c \in Http :
             (Decided(c) /\ ~HasHostLine(conn[c].buf)
                 /\ ~(build.certbot /\ HasAcmeLine(conn[c].buf)))
             => /\ conn[c].pc = "done"
                /\ conn[c].decision \in {"no_host", "panic"}
                /\ conn[c].buf \o conn[c].rx \o Concat(conn[c].req) = conn[c].stream
                /\ conn[c].to_backend = <<>>
                /\ conn[c].to_client = <<>>)
    /\ [][ \A c \in Http :
              /\ (conn[c].pc = "read" /\ conn'[c].decision # "")
                    => /\ conn'[c].buf # <<>>
                       /\ conn'[c].buf \o conn'[c].rx \o Concat(conn'[c].req) = conn[c].stream
              /\ Decided(c)
                    => conn'[c].buf = conn[c].buf /\ conn'[c].decision = conn[c].decision ]_vars

\* The Host line arrives in two segments and the read returns the first: the
\* connection is closed with the rest of the line never read
C26_Witness ==
    \E c \in Http :
        /\ conn[c].stream = P_HOST_A_OPEN \o P_END
        /\ conn[c].buf = P_HOST_A_OPEN
        /\ conn[c].decision = "no_host"
        /\ conn[c].req = << P_END >>
        /\ conn[c].pc = "done"

(***************************************************************************)
(* C27                                                                     *)
(***************************************************************************)
\* The index at which the first complete Host line of buf starts, 0 when it
\* has none
FirstHostLineAt(buf) ==
    LET at == { i \in 1..Len(buf) : /\ LineStart(buf, i)
                                    /\ OccursAt(buf, HOST_PREFIX, i)
                                    /\ Find(buf, CRLF, i + Len(HOST_PREFIX)) > 0 }
    IN  IF at = {} THEN 0 ELSE CHOOSE i \in at : \A j \in at : i <= j

\* The value of a Host line up to its first ':'
HostnameOf(value) ==
    LET colon == Find(value, << COLON >>, 1)
    IN  IF colon = 0 THEN value ELSE SubSeq(value, 1, colon - 1)

\* How a hostname is routed
OutcomeFor(name) ==
    IF ~ValidUtf8(name) THEN << "non_utf8", "" >>
    ELSE IF name \in DOMAIN hostnames THEN << "redirect", hostnames[name] >>
    ELSE << "not_found", "" >>

\* C27: a connection that is routed by a hostname is routed by the value of
\* the first complete line that starts with "Host: "; and when that line is
\* the first line of the bytes read, the outcome is the one of its hostname
\* whatever Host lines and GET lines follow it.
C27_FirstHostLineDecides ==
    \A c \in Http :
        Decided(c) =>
            LET buf == conn[c].buf
                i   == FirstHostLineAt(buf)
                out == << conn[c].decision, conn[c].target >>
            IN  /\ conn[c].decision \in {"redirect", "not_found", "non_utf8"}
                      => i > 0 /\ out = OutcomeFor(HostnameOf(HostValueAt(buf, i)))
                /\ i = 1 => out = OutcomeFor(HostnameOf(HostValueAt(buf, i)))

\* An unmapped Host line first, then the Host line of a mapped hostname: the
\* not-found response
C27_Witness ==
    \E c \in Http :
        /\ conn[c].buf = P_HOST_C \o P_HOST_A
        /\ conn[c].decision = "not_found"

(***************************************************************************)
(* C28                                                                     *)
(***************************************************************************)
\* The bytes read of a request that is the one line "Host: <value>"
HostRequest(value) == HOST_PREFIX \o value \o CRLF

\* The routing outcome of a connection
OutcomeOf(c) == << conn[c].decision, conn[c].target >>

\* The routing outcome of the bytes buf
RoutedAs(buf) ==
    LET d == Route(buf, build.certbot) IN << d.kind, d.target >>

\* C28: a request whose Host value is h, ':' and a port text p has the
\* routing outcome of the request whose Host value is h alone, which is the
\* outcome of the hostname h; for every hostname h without ':' and every
\* port text p without CR and LF (mapped, unmapped and non-UTF-8 hostnames;
\* empty port texts, and port texts with ':' or with bytes that are not UTF-8).
C28_PortTextIgnored ==
    \A c \in Http :
        Decided(c) =>
            \A h \in Names, p \in PortTexts :
                conn[c].buf = HostRequest(h \o << COLON >> \o p) =>
                    /\ OutcomeOf(c) = RoutedAs(HostRequest(h))
                    /\ OutcomeOf(c) = OutcomeFor(h)

\* The Host value 'a::\xff' is redirected to the target of 'a'
C28_Witness ==
    \E c \in Http :
        /\ conn[c].buf = HostRequest(<< 97, COLON, COLON, 255 >>)
        /\ conn[c].decision = "redirect"
        /\ conn[c].target = hostnames[<< 97 >>]

(***************************************************************************)
(* C29                                                                     *)
(***************************************************************************)
\* The routing outcome of the line l when it is the line that decides, with
\* the certbot feature or without
OutcomeOfLine(l) ==
    IF IsPrefix(HOST_PREFIX, l)
    THEN OutcomeFor(HostnameOf(SubSeq(l, Len(HOST_PREFIX) + 1, Len(l) - Len(CRLF))))
    ELSE IF build.certbot THEN << "certbot", certbot_hostname >>
    ELSE << "no_host", "" >>

\* C29: every CR LF pair of the bytes read ends a line, also a pair whose CR
\* follows another CR: after the line 'X-Pad: y' ended by CR LF, by CR CR LF
\* or by CR CR CR LF, which is neither Host line nor GET line, the next line
\* starts at the byte after the LF and is examined, so that the connection
\* has the outcome of that line (a Host line, or a GET line for an ACME path).
C29_EveryCrLfEndsALine ==
    \A c \in Http :
        Decided(c) =>
            \A e \in LineEnds, l \in { HostRequest(<< 97 >>), HostRequest(<< 99 >>), P_GET_ACME } :
                conn[c].buf = PAD \o e \o l => OutcomeOf(c) = OutcomeOfLine(l)

(***************************************************************************)
(* C30                                                                     *)
(***************************************************************************)
\* 'GET /.well-known/acme-challenge/'
ACME_LINE_PREFIX == GET_PREFIX \o CERTBOT_PATH_PREFIX

\* buf is one line and the CR LF that ends it
OneLine(buf) == Find(buf, CRLF, 1) = Len(buf) - 1

\* C30: with the certbot feature, a connection whose bytes read are one line
\* ended by CR LF is redirected to the certbot hostname exactly when the line
\* starts with "GET /.well-known/acme-challenge/"; the stripping of
\* " HTTP/x" from the end of the path does not change the test, whether the
\* suffix is absent, present once or twice, directly after the prefix, or
\* after a path that lacks the last byte of the prefix.
C30_StripKeepsCertbotDecision ==
    \A c \in Http :
        (build.certbot /\ Decided(c) /\ OneLine(conn[c].buf)) =>
            /\ conn[c].decision = "certbot" <=> IsPrefix(ACME_LINE_PREFIX, conn[c].buf)
            /\ conn[c].decision = "certbot" => conn[c].target = certbot_hostname

\* The line 'GET /.well-known/acme-challenge/ HTTP/1.1', whose path is the
\* prefix and nothing more once stripped, is redirected to certbot
C30_Witness ==
    \E c \in Http :
        /\ build.certbot
        /\ conn[c].buf = ACME_LINE_PREFIX \o HTTP11 \o CRLF
        /\ conn[c].decision = "certbot"

(***************************************************************************)
(* C31                                                                     *)
(***************************************************************************)
\* C31: a connection is redirected to the target of the map key k only when
\* the bytes read hold a line that starts with exactly "Host: " and the
\* value of the first such line, up to its first ':', equals k byte for
\* byte; a value that differs from a key in letter case or by a trailing
\* space, and a line named "host: " or "HOST: ", is never redirected to the
\* key's target.
C31_LookupByteExact ==
    \A c \in Http :
        (Decided(c) /\ conn[c].decision = "redirect") =>
            LET i == FirstHostLineAt(conn[c].buf) IN
            /\ i > 0
            /\ \E k \in DOMAIN hostnames :
                    /\ HostnameOf(HostValueAt(conn[c].buf, i)) = k
                    /\ conn[c].target = hostnames[k]
            /\ \A n \in CaseHeaders, v \in CaseValues :
                    conn[c].buf = n \o v \o CRLF => n = HOST_PREFIX /\ HostnameOf(v) \in DOMAIN hostnames

\* The line 'Host: A' got the not-found response
C31_Witness ==
    \E c \in Http :
        /\ conn[c].buf = HOST_PREFIX \o << 65 >> \o CRLF
        /\ conn[c].decision = "not_found"
        /\ conn[c].pc = "done"

(***************************************************************************)
(* C32                                                                     *)
(***************************************************************************)
\* The outbound connection of a connection: what it was routed to, where it
\* connected, and how often it resolved and connected
Outbound(r) == << r.decision, r.target, r.addr, r.n_resolve, r.n_connect >>

\* A step of a connection that is in the copy phase keeps its outbound
\* connection, and the bytes sent to the backend only grow, by the client
\* bytes that the step takes
CopyKeepsBackend ==
    \A c \in Conns :
        conn[c].pc = "copy" =>
            /\ Outbound(conn'[c]) = Outbound(conn[c])
            /\ conn'[c].buf = conn[c].buf
            /\ conn'[c].pc \in {"copy", "done"}
            /\ \/ conn'[c].to_backend = conn[c].to_backend
               \/ /\ conn[c].rx # <<>>
                  /\ conn'[c].to_backend = conn[c].to_backend \o conn[c].rx
               \/ /\ conn[c].rx = <<>> /\ conn[c].req # <<>>
                  /\ conn'[c].to_backend = conn[c].to_backend \o Head(conn[c].req)

\* C32: once the bidirectional copy of a connection has started, its target,
\* its resolved address and its one outbound connection never change, and
\* every client byte taken later is appended to what that connection was
\* sent, whatever the bytes are (a Host line of another mapped hostname, a
\* GET line for an ACME path); a connection in the copy phase has connected
\* exactly once.
C32_BackendFixedInCopy ==
    /\ [](\A c \in Conns : conn[c].pc = "copy" => conn[c].n_connect = 1 /\ conn[c].n_resolve = 1)
    /\ [][CopyKeepsBackend]_vars

\* A connection routed by 'Host: a' whose later bytes, the Host line of b,
\* have gone to the backend of a
C32_Witness ==
    \E c \in Http :
        /\ conn[c].buf = P_HOST_A
        /\ conn[c].target = hostnames[<< 97 >>]
        /\ conn[c].n_connect = 1
        /\ conn[c].to_backend = P_HOST_A \o P_HOST_B_PORT
        /\ conn[c].outcome = "completed"

(***************************************************************************)
(* C33                                                                     *)
(***************************************************************************)
\* The connection was redirected: name resolution, an outbound connection or
\* bytes for a backend
Redirected(r) ==
    \/ r.n_resolve > 0 \/ r.n_connect > 0
    \/ r.addrs # <<>> \/ r.addr # ""
    \/ r.to_backend # <<>>
    \/ r.pc \in {"resolve", "connect", "flush", "copy"}

\* The outcomes in which the not-found responder ends
NotFoundOutcomes == { "not_found", "not_found_write_failed", "not_found_flush_failed" }

\* The values of the map f
Range(f) == { f[k] : k \in DOMAIN f }

\* The connection was answered with the not-found response, or a part of it
Answered(r) == r.nf_step > 0 \/ r.pc = "not_found" \/ r.outcome \in NotFoundOutcomes

\* The decision of a connection is made once, and a connection that has
\* ended stays as it ended
DecidedOnce ==
    \A c \in Conns :
        /\ conn[c].decision # ""
              => conn'[c].decision = conn[c].decision /\ conn'[c].target = conn[c].target
        /\ conn[c].pc = "done" => conn'[c] = conn[c]

\* C33: an accepted connection has one outcome, made once: an abort (no
\* decision, no Host line, a hostname that is not UTF-8, a faulted scan), the
\* not-found response, a redirect to a mapped target or a redirect to certbot.
\* It resolves at most once and connects at most once, and only when its
\* decision is a redirect; it is answered with the not-found response only
\* when that is its decision; so none is both answered and redirected, and an
\* aborted connection is neither.
C33_OneOutcomePerConnection ==
    /\ [](\A c \in Conns :
            LET r == conn[c] IN
            /\ r.decision \in {"", "no_host", "non_utf8", "panic", "not_found", "redirect",
                               "certbot"}
            /\ r.n_resolve <= 1 /\ r.n_connect <= 1
            /\ Redirected(r) => r.decision \in {"redirect", "certbot"}
            /\ Answered(r) => r.decision = "not_found"
            /\ ~(Redirected(r) /\ Answered(r))
            /\ r.decision = "redirect" => r.target \in Range(hostnames)
            /\ r.decision = "certbot" => r.target = certbot_hostname
            /\ r.decision \notin {"redirect", "certbot"} => r.target = ""
            /\ r.pc = "done" <=> r.outcome # "")
    /\ [][DecidedOnce]_vars

\* An unmapped hostname answered with the whole not-found response, with no
\* name resolved and no outbound connection
C33_Witness ==
    \E c \in Http :
        /\ conn[c].decision = "not_found"
        /\ conn[c].outcome = "not_found"
        /\ conn[c].nf_step = NotFoundWrites
        /\ conn[c].n_resolve = 0
        /\ conn[c].n_connect = 0
        /\ conn[c].to_backend = <<>>

(***************************************************************************)
(* C34                                                                     *)
(***************************************************************************)
\* What connection c has read, decided, sent to its backend and sent to its
\* client is explained by its own bytes, the build, the configuration and the
\* not-found payload, and by what its own backend replied
OwnBytesOnly(c) ==
    LET r == conn[c] IN
    /\ IsPrefix(r.buf, r.stream)
    /\ r.listener = "http" /\ r.decision # "" => << r.decision, r.target >> = RoutedAs(r.buf)
    /\ r.listener = "https" => r.decision = "" /\ r.buf = <<>>
    /\ IsPrefix(r.to_backend, r.stream)
    /\ r.decision \in {"redirect", "certbot"} => r.to_client = Replies(r.replies)
    /\ r.decision = "not_found"
          => \E date \in Dates : IsPrefix(r.to_client, CompleteResponse(not_found, date))
    /\ r.decision \notin {"redirect", "certbot", "not_found"} => r.to_client = <<>>

\* A step of the handler of one connection changes no other connection and
\* nothing of the supervisor
HandlerStepsAlone ==
    \A c \in Conns :
        HandlerStep(c) =>
            /\ \A d \in Conns \ {c} : conn'[d] = conn[d]
            /\ UNCHANGED << build, main_vars, sig, delivered >>

\* C34: under every interleaving of two connections, of the signals and of
\* the shutdown, what a connection reads, how it is routed, what its backend
\* is sent and what its client is sent are those of its own bytes, with the
\* build, the hostname map and the not-found payload; two connections that
\* read the same bytes are routed alike, two that read different bytes each
\* get the routing of their own; and a step of one handler changes no other
\* connection.
C34_ConnectionsIndependent ==
    /\ [](\A c \in Conns : OwnBytesOnly(c))
    /\ [](\A c, d \in Http :
            (Decided(c) /\ Decided(d) /\ conn[c].buf = conn[d].buf)
                => conn[c].decision = conn[d].decision /\ conn[c].target = conn[d].target)
    /\ [][HandlerStepsAlone]_vars

\* Two connections in flight at once: the first, 'Host: a', in its copy
\* phase with a reply received; the second, 'Host: c', with a part of the
\* not-found response written
C34_Witness ==
    /\ Len(conn) = 2
    /\ conn[1].stream = P_HOST_A /\ conn[1].pc = "copy" /\ conn[1].replies = 1
    /\ conn[1].target = hostnames[<< 97 >>]
    /\ conn[2].stream = P_HOST_C /\ conn[2].pc = "not_found" /\ conn[2].nf_step = 3
    /\ conn[2].to_backend = <<>>

(***************************************************************************)
(* C35                                                                     *)
(***************************************************************************)
\* The states in which a handler waits for a peer: for the client's first
\* bytes, for the outbound connect, in the copy phase
Waiting == { "read", "connect", "copy" }

\* The step drops the handlers: the runtime is shut down, or main returns
ShutdownStep ==
    \/ main_pc = "shutdown" /\ main_pc' = "cleanup"
    \/ main_pc = "return" /\ main_pc' = "exited"

\* How connection c leaves a waiting state in this step: by an event of its
\* client or its backend, or by the shutdown
LeftByPeerOrShutdown(c) ==
    LET r == conn[c]
        n == conn'[c]
    IN
    \/ n.outcome = "dropped" /\ ShutdownStep
    \/ /\ r.pc = "read"
       /\ \/ n.outcome = "closed_early" /\ r.req = <<>>
          \/ n.outcome = "read_failed"
          \/ /\ n.buf # <<>> /\ IsPrefix(n.buf, r.stream)
             /\ Len(n.req) < Len(r.req)
             /\ n.decision # ""
    \/ /\ r.pc = "connect"
       /\ n.n_connect = r.n_connect + 1
       /\ n.pc = "flush" \/ n.outcome = "connect_failed"
    \/ /\ r.pc = "copy"
       /\ \/ n.outcome = "completed" /\ r.up_done /\ r.down_done
          \/ n.outcome = "copy_failed"

\* C35: a handler that waits for the first bytes of its client, for its
\* outbound connect or in its copy phase leaves that state only by an event
\* of a peer (bytes read, the client's close, a read error; the connect
\* made or refused; both directions ended, a copy error) or by the shutdown
\* of the process, and while the process serves nothing else ends it.
C35_NoTimeoutOnHandlers ==
    [][ \A c \in Conns :
          (conn[c].pc \in Waiting /\ conn'[c].pc # conn[c].pc) => LeftByPeerOrShutdown(c) ]_vars

\* A handler in its copy phase whose client has ended its stream and whose
\* backend has sent what it will and keeps its stream open: it waits
C35_Witness ==
    \E c \in Http :
        /\ main_pc = "serving"
        /\ conn[c].pc = "copy"
        /\ conn[c].up_done /\ ~conn[c].down_done
        /\ conn[c].replies = MaxReplies

(***************************************************************************)
(* C36                                                                     *)
(***************************************************************************)
\* Connection c waits in the queue of its listener while the loop runs
Queued(c) == c \in Conns /\ conn[c].pc = "pending" /\ main_pc = "serving"

\* Connection c has been accepted: its handler was spawned
AcceptedNow(c) == c \in Conns /\ conn[c].pc # "pending" /\ conn[c].outcome # "refused"

\* Connection c was refused: the loop was left with c in the queue
RefusedNow(c) == c \in Conns /\ conn[c].outcome = "refused"

\* A connection that waits in a queue is eventually accepted
C36_PendingEventuallyAccepted ==
    \A c \in 1..MaxConns : Queued(c) ~> AcceptedNow(c)

\* C36: under a fair select, with connections that keep arriving on both
\* listeners, a signal delivered while the loop runs eventually ends the loop,
\* and a connection that waits in the queue of a listener is eventually
\* accepted, or refused because a signal ended the loop first.
C36_FairSelectServesEveryBranch ==
    /\ (main_pc = "serving" /\ sig # {}) ~> (main_pc # "serving" /\ stop_cause \in Signals)
    /\ \A c \in 1..MaxConns :
          Queued(c) ~> (AcceptedNow(c) \/ (RefusedNow(c) /\ stop_cause \in Signals))

\* A signal is delivered and the loop runs, with a connection waiting on the
\* HTTP listener and the record of a finished HTTPS connection behind it
C36_Witness ==
    /\ main_pc = "serving"
    /\ sig # {}
    /\ Len(conn) = 2
    /\ conn[1].listener = "https" /\ conn[1].pc = "done"
    /\ conn[2].listener = "http" /\ conn[2].pc = "pending"

(***************************************************************************)
(* C37                                                                     *)
(***************************************************************************)
\* The tokens are in the order of the source: each starts where the one
\* before it ended, or later, and all lie before the remaining input
InSourceOrder ==
    /\ \A i \in 1..Len(lang.tokens) :
          /\ lang.tokens[i].size >= 1
          /\ lang.tokens[i].offset + lang.tokens[i].size <= lang.input.offset
    /\ \A i \in 1..(Len(lang.tokens) - 1) :
          lang.tokens[i].offset + lang.tokens[i].size <= lang.tokens[i + 1].offset

\* A turn of the loop ends the scan or leaves less input
TurnShrinksInput ==
    lang.status = "running" =>
        \/ lang'.status # "running"
        \/ lang'.input.size < lang.input.size

\* C37: scanner::scan is total.  Every turn of its loop returns an error or
\* leaves strictly less input, with offset + size equal to the length of the
\* source; the scan ends with the tokens in source order or with a ScanError
\* and never panics, also when a token ends at the end of the input.
C37_ScanIsTotal ==
    /\ [](lang.status \in {"running", "ok", "error"})
    /\ [](lang.input.offset + lang.input.size = Len(lang.source))
    /\ [](InSourceOrder)
    /\ [][TurnShrinksInput]_vars

====
